---- MODULE Spec2Model ----
(***************************************************************************)
(* Model of splurge_exceptions: the scoped handler error_context           *)
(* (managers/exception.py), the decorator handle_exceptions                *)
(* (decorators/error_handler.py), the wrapper wrap_exception               *)
(* (wrappers/stdlib.py) and the parts of SplurgeError (core/base.py) that   *)
(* they call.                                                              *)
(*                                                                         *)
(* Exception objects live in `heap`; an object is named by its index, so   *)
(* "the same object" is equality of indices.  Strings that the code        *)
(* inspects character by character (error codes, domains) are sequences of *)
(* one-character strings; opaque strings (messages) are TLA+ strings.      *)
(* Python's optional arguments are records [given, v].  The keys of an     *)
(* `exceptions` mapping are foreign (standard library) exception types.    *)
(* Of Python's exception chaining only __cause__ is kept; the implicit     *)
(* __context__ link plays no part in which object leaves a handler.        *)
(***************************************************************************)
EXTENDS Integers, Sequences, FiniteSets, TLC

VARIABLES
    heap,      \* every exception object created so far
    invs,      \* every error_context invocation started so far (parameters and progress)
    stack,     \* the invocations whose with-block is still open, outermost first
    calls,     \* the callback calls made so far, in order
    result,    \* what left the outermost error_context
    dec,       \* the parameters of the handle_exceptions decorator in force
    logs,      \* the records passed to the module logger so far
    ncalls,    \* the number of decorated calls made so far
    dres,      \* what the last decorated call did
    dicts,     \* the dict objects the caller holds, by identity
    api,       \* the last direct call on the library: its arguments and outcome
    prev,      \* heap and dicts as they were just before that call
    nops,      \* the number of direct calls made so far
    caller     \* the list objects the caller holds, and which of its dicts
               \* and lists it got from an accessor of which instance

vars == <<heap, invs, stack, calls, result, dec, logs, ncalls, dres,
          dicts, api, prev, nops, caller>>

-----------------------------------------------------------------------------
(* Optional values.                                                        *)

Some(x) == [given |-> TRUE, v |-> x]

EmptyMap == [k \in {} |-> 0]

NoneMap == [given |-> FALSE, v |-> EmptyMap]

NoneCode == [given |-> FALSE, v |-> <<>>]

NoneStr == [given |-> FALSE, v |-> ""]

NoneSeq == [given |-> FALSE, v |-> <<>>]

\* Python truth value of an optional mapping argument ("if context:").
TruthyMap(o) == o.given /\ DOMAIN o.v /= {}

\* Python truth value of an optional string or list argument.
TruthySeq(o) == o.given /\ Len(o.v) > 0

-----------------------------------------------------------------------------
(* Exception classes.                                                      *)

ForeignExceptionTypes == {"ValueError", "UnicodeError", "KeyError"}

NonLocalControlTypes == {"KeyboardInterrupt"}

ForeignTypes == ForeignExceptionTypes \cup NonLocalControlTypes

SplurgeTypes == {"SplurgeValueError", "SplurgeRuntimeError"}

\* The direct base class of each class.
BaseOf(t) ==
    CASE t = "UnicodeError" -> "ValueError"
      [] t = "KeyError" -> "LookupError"
      [] t = "LookupError" -> "Exception"
      [] t = "ValueError" -> "Exception"
      [] t = "RuntimeError" -> "Exception"
      [] t = "KeyboardInterrupt" -> "BaseException"
      [] t = "SplurgeValueError" -> "SplurgeError"
      [] t = "SplurgeRuntimeError" -> "SplurgeError"
      [] t = "SplurgeSqlQueryError" -> "SplurgeError"
      [] t = "EmptyDomainError" -> "SplurgeError"
      [] t = "BadDomainError" -> "SplurgeError"
      [] t = "UppercaseDomainError" -> "SplurgeError"
      [] t = "DashEndError" -> "SplurgeError"
      [] t = "SplurgeError" -> "Exception"
      [] t = "Exception" -> "BaseException"
      [] OTHER -> "object"

RECURSIVE IsSubclass(_, _)
IsSubclass(t, b) ==
    IF t = b THEN TRUE
    ELSE IF t = "object" THEN FALSE
    ELSE IsSubclass(BaseOf(t), b)

\* Subclasses that applications declare: one with a hierarchical domain and
\* four whose _domain is malformed.
CustomTypes == {"SplurgeSqlQueryError", "EmptyDomainError", "BadDomainError",
                "UppercaseDomainError", "DashEndError"}

\* The _domain class attribute of the concrete error types.
DomainOf(t) ==
    CASE t = "SplurgeValueError" -> <<"v", "a", "l", "u", "e">>
      [] t = "SplurgeRuntimeError" -> <<"r", "u", "n", "t", "i", "m", "e">>
      [] t = "SplurgeSqlQueryError" ->
             <<"d", "a", "t", "a", "b", "a", "s", "e", ".", "s", "q", "l", ".",
               "q", "u", "e", "r", "y">>
      [] t = "EmptyDomainError" -> <<>>
      [] t = "BadDomainError" ->
             <<"v", "a", "l", "i", "d", ".", ".", "i", "n", "v", "a", "l", "i", "d">>
      [] t = "UppercaseDomainError" ->
             <<"I", "n", "v", "a", "l", "i", "d", ".", "C", "o", "m", "p", "o", "n",
               "e", "n", "t">>
      [] t = "DashEndError" -> <<"i", "n", "v", "a", "l", "i", "d", "-">>
      [] OTHER -> <<>>

\* hasattr(self.__class__, "_domain"): SplurgeError itself declares none.
HasDomain(t) == t \in SplurgeTypes \cup CustomTypes

-----------------------------------------------------------------------------
(* Code validation (core/base.py).                                         *)

Lower == {"a", "b", "c", "d", "e", "f", "g", "h", "i", "j", "k", "l", "m",
          "n", "o", "p", "q", "r", "s", "t", "u", "v", "w", "x", "y", "z"}

Digit == {"0", "1", "2", "3", "4", "5", "6", "7", "8", "9"}

\* re "$" also matches just before one trailing newline.
StripFinalNewline(s) ==
    IF Len(s) > 0 /\ s[Len(s)] = "\n" THEN SubSeq(s, 1, Len(s) - 1) ELSE s

\* VALID_COMPONENT_PATTERN.match(s) for ^[a-z][a-z0-9\-]*[a-z0-9]$
MatchesComponent(s) ==
    LET c == StripFinalNewline(s) IN
        /\ Len(c) >= 2
        /\ c[1] \in Lower
        /\ c[Len(c)] \in Lower \cup Digit
        /\ \A i \in 1..Len(c) : c[i] \in Lower \cup Digit \cup {"-"}

\* SplurgeError._validate_error_code: TRUE when it returns without raising.
\* "not error_code" rejects None and the empty string alike.
ValidateErrorCode(code) ==
    /\ TruthySeq(code)
    /\ MatchesComponent(code.v)

\* str.split(".")
RECURSIVE Split(_)
Split(s) ==
    IF \A i \in 1..Len(s) : s[i] /= "." THEN <<s>>
    ELSE LET p == CHOOSE i \in 1..Len(s) :
                      /\ s[i] = "."
                      /\ \A j \in 1..(i - 1) : s[j] /= "."
         IN <<SubSeq(s, 1, p - 1)>> \o Split(SubSeq(s, p + 1, Len(s)))

\* SplurgeError._validate_domain: TRUE when it returns without raising.
ValidateDomain(domain) ==
    /\ domain /= <<>>
    /\ \A i \in 1..Len(Split(domain)) :
           /\ Split(domain)[i] /= <<>>
           /\ MatchesComponent(Split(domain)[i])

VALID_SEVERITIES == {"info", "warning", "error", "critical"}

-----------------------------------------------------------------------------
(* Exception objects.                                                      *)

\* Context and details values: a scalar or a (nested) mapping.
Scalar(x) == [tag |-> "scalar", s |-> x, m |-> {}]

Mapping(pairs) == [tag |-> "mapping", s |-> "", m |-> pairs]

\* A foreign (standard library) exception raised as cls(msg).
ForeignError(cls, msg) ==
    [cls |-> cls, message |-> Some(msg), error_code |-> <<>>,
     details |-> EmptyMap, details_id |-> 0, severity |-> "",
     recoverable |-> FALSE,
     context |-> EmptyMap, suggestions |-> <<>>, cause |-> 0]

\* BaseException.__str__ for an exception built from one string argument;
\* KeyError.__str__ returns the repr of its argument.
BaseExceptionStr(o) ==
    IF ~o.message.given THEN ""
    ELSE IF o.cls = "KeyError" THEN "'" \o o.message.v \o "'"
    ELSE o.message.v

\* SplurgeError.__init__: the kind of error its validation raises, "none"
\* when construction succeeds.  The checks run in the order of the code.
InitFailure(cls, error_code, severity) ==
    IF ~HasDomain(cls) THEN "TypeError"
    ELSE IF ~ValidateErrorCode(error_code) THEN "ValueError"
    ELSE IF ~ValidateDomain(DomainOf(cls)) THEN "ValueError"
    ELSE IF severity \notin VALID_SEVERITIES THEN "ValueError"
    ELSE "none"

InitFailureMessage(cls, error_code, severity) ==
    IF ~HasDomain(cls) THEN "must define _domain class attribute"
    ELSE IF ~TruthySeq(error_code) THEN "error_code cannot be empty"
    ELSE IF ~MatchesComponent(error_code.v) THEN "Invalid error_code"
    ELSE IF DomainOf(cls) = <<>> THEN "_domain cannot be empty"
    ELSE IF ~ValidateDomain(DomainOf(cls)) THEN "Invalid _domain"
    ELSE "Invalid severity"

\* The identity of the dict object passed as an optional argument: its index
\* in the caller's store, 0 for a dict nobody else holds.
DictId(o) == IF "id" \in DOMAIN o THEN o.id ELSE 0

\* The instance SplurgeError.__init__ leaves behind when it succeeds.
\* "self._details = details or {}" keeps the caller's dict object itself when
\* it is non-empty (details_id names it) and a fresh dict otherwise.
SplurgeErrorInit(cls, error_code, message, details, severity, recoverable) ==
    [cls |-> cls, message |-> message, error_code |-> error_code.v,
     details |-> IF TruthyMap(details) /\ DictId(details) = 0
                 THEN details.v ELSE EmptyMap,
     details_id |-> IF TruthyMap(details) THEN DictId(details) ELSE 0,
     severity |-> severity, recoverable |-> recoverable,
     context |-> EmptyMap, suggestions |-> <<>>, cause |-> 0]

\* self._details as it reads when the caller's dicts are ds.
DetailsOf(o, ds) == IF o.details_id /= 0 THEN ds[o.details_id] ELSE o.details

FullCode_strips_suffix(o) ==
    LET d == DomainOf(o.cls)
        c == o.error_code
    IN  IF Len(d) >= Len(c) /\ SubSeq(d, Len(d) - Len(c) + 1, Len(d)) = c
        THEN d
        ELSE d \o <<".">> \o c

\* The full_code property: f"{self._domain}.{self._error_code}"
FullCode(o) == DomainOf(o.cls) \o <<".">> \o o.error_code

\* dict.update
DictUpdate(d, u) ==
    [k \in (DOMAIN d) \cup (DOMAIN u) |-> IF k \in DOMAIN u THEN u[k] ELSE d[k]]

attach_context_discarded(o, key, value, context_dict) ==
    [ok |-> TruthyMap(context_dict) \/ key.given, obj |-> o]

attach_context_unchecked_key(o, key, value, context_dict) ==
    IF TruthyMap(context_dict)
    THEN [ok |-> TRUE, obj |-> [o EXCEPT !.context = DictUpdate(@, context_dict.v)]]
    ELSE [ok |-> TRUE, obj |-> [o EXCEPT !.context = DictUpdate(@, key.v :> value)]]

attach_context_keeps_existing(o, key, value, context_dict) ==
    IF TruthyMap(context_dict)
    THEN [ok |-> TRUE, obj |-> [o EXCEPT !.context = DictUpdate(context_dict.v, @)]]
    ELSE IF key.given
    THEN [ok |-> TRUE, obj |-> [o EXCEPT !.context = DictUpdate(key.v :> value, @)]]
    ELSE [ok |-> FALSE, obj |-> o]

\* SplurgeError.attach_context; ok is FALSE when it raises ValueError.
attach_context(o, key, value, context_dict) ==
    IF TruthyMap(context_dict)
    THEN [ok |-> TRUE, obj |-> [o EXCEPT !.context = DictUpdate(@, context_dict.v)]]
    ELSE IF key.given
    THEN [ok |-> TRUE, obj |-> [o EXCEPT !.context = DictUpdate(@, key.v :> value)]]
    ELSE [ok |-> FALSE, obj |-> o]

add_suggestion_skips_duplicates(o, suggestion) ==
    IF \E i \in 1..Len(o.suggestions) : o.suggestions[i] = suggestion
    THEN o
    ELSE [o EXCEPT !.suggestions = Append(@, suggestion)]

add_suggestion_prepends(o, suggestion) ==
    [o EXCEPT !.suggestions = <<suggestion>> \o @]

\* SplurgeError.add_suggestion
add_suggestion(o, suggestion) ==
    [o EXCEPT !.suggestions = Append(@, suggestion)]

RECURSIVE AddSuggestions(_, _)
AddSuggestions(o, suggestions) ==
    IF suggestions = <<>> THEN o
    ELSE AddSuggestions(add_suggestion(o, Head(suggestions)), Tail(suggestions))

clear_context_resets_suggestions(o) ==
    [o EXCEPT !.context = EmptyMap, !.suggestions = <<>>]

\* SplurgeError.clear_context
clear_context(o) == [o EXCEPT !.context = EmptyMap]

\* SplurgeError.has_suggestions
has_suggestions(o) == Len(o.suggestions) > 0

\* One entry of a state payload: present or not, of the type __setstate__
\* tests for (dict for details and _context, list for _suggestions) or not,
\* and its value.
Field(v) == [present |-> TRUE, typed |-> TRUE, v |-> v]

Absent(v) == [present |-> FALSE, typed |-> FALSE, v |-> v]

Malformed(v) == [present |-> TRUE, typed |-> FALSE, v |-> v]

\* The payload {}: a dict without any key.
EmptyState ==
    [kind |-> "dict", truthy |-> FALSE,
     message |-> Absent(NoneStr), details |-> Absent(EmptyMap),
     severity |-> Absent(""), recoverable |-> Absent(FALSE),
     _context |-> Absent(EmptyMap), _suggestions |-> Absent(<<>>)]

\* The payload None.
NoneState == [EmptyState EXCEPT !.kind = "none"]

\* A payload that is not a dict, e.g. [] (falsy) or ["x"] (truthy).
OtherState(truthy) == [EmptyState EXCEPT !.kind = "other", !.truthy = truthy]

__reduce___from_display(o, ds) ==
    [cls |-> o.cls,
     args |-> <<Some(<<"[">> \o FullCode(o) \o <<"]">>)>>,
     state |-> [EmptyState EXCEPT !.truthy = TRUE,
                                  !._context = Field(o.context),
                                  !._suggestions = Field(o.suggestions)]]

\* SplurgeError.__reduce__: the class, the error code as the only positional
\* argument, and the state dict.
__reduce__(o, ds) ==
    [cls |-> o.cls,
     args |-> <<Some(o.error_code)>>,
     state |-> [kind |-> "dict", truthy |-> TRUE,
                message |-> Field(o.message),
                details |-> Field(DetailsOf(o, ds)),
                severity |-> Field(o.severity),
                recoverable |-> Field(o.recoverable),
                _context |-> Field(o.context),
                _suggestions |-> Field(o.suggestions)]]

\* state.get(name, default) for a dict payload.
StateGet(f, default) == IF f.present THEN f.v ELSE default

\* SplurgeError.__setstate__; ok is FALSE when it raises AttributeError,
\* which is what state.get does on a truthy payload that is not a dict.
__setstate__(o, state) ==
    IF ~state.truthy THEN [ok |-> TRUE, obj |-> o]
    ELSE IF state.kind /= "dict" THEN [ok |-> FALSE, obj |-> o]
    ELSE [ok |-> TRUE,
          obj |-> [o EXCEPT !.message = StateGet(state.message, NoneStr),
                            !.details = IF state.details.typed
                                        THEN state.details.v ELSE EmptyMap,
                            !.details_id = 0,
                            !.severity = StateGet(state.severity, "error"),
                            !.recoverable = StateGet(state.recoverable, FALSE),
                            !.context = IF state._context.typed
                                        THEN state._context.v ELSE @,
                            !.suggestions = IF state._suggestions.typed
                                            THEN state._suggestions.v ELSE @]]

\* pickle.loads(pickle.dumps(o)): the callable of __reduce__ is called with
\* its arguments, and __setstate__ with its state on what that returns.
PickleRoundTrip(o, ds) ==
    LET r == __reduce__(o, ds)
        failure == InitFailure(r.cls, r.args[1], "error")
    IN  IF failure /= "none"
        THEN [ok |-> FALSE, raised |-> failure, obj |-> o]
        ELSE LET fresh == SplurgeErrorInit(r.cls, r.args[1], NoneStr, NoneMap,
                                           "error", FALSE)
                 set == __setstate__(fresh, r.state)
             IN  [ok |-> set.ok,
                  raised |-> IF set.ok THEN "none" ELSE "AttributeError",
                  obj |-> set.obj]

NoKey == [given |-> FALSE, v |-> ""]

NoValue == Scalar("")

wrap_exception_synthesizes_code(h, e, target, error_code, message, context, suggestions, details) ==
    LET msg == IF message.given THEN message ELSE Some(BaseExceptionStr(h[e]))
        code == IF InitFailure(target, error_code, "error") /= "none"
                THEN Some(<<"g", "e", "n", "e", "r", "i", "c">>)
                ELSE error_code
        built == SplurgeErrorInit(target, code, msg, details, "error", FALSE)
    IN  [heap |-> Append(h, [built EXCEPT !.cause = e]), raised |-> FALSE,
         obj |-> Len(h) + 1]

wrap_exception_unchained(h, e, target, error_code, message, context, suggestions, details) ==
    LET msg == IF message.given THEN message ELSE Some(BaseExceptionStr(h[e]))
        failure == InitFailure(target, error_code, "error")
        built == SplurgeErrorInit(target, error_code, msg, details, "error", FALSE)
    IN  IF failure /= "none"
        THEN [heap |-> Append(h, ForeignError(failure,
                                 InitFailureMessage(target, error_code, "error"))),
              raised |-> TRUE, obj |-> Len(h) + 1]
        ELSE [heap |-> Append(h, built), raised |-> FALSE, obj |-> Len(h) + 1]

\* wrap_exception(exception, target_exception_type, error_code, message,
\* context, suggestions, details) on heap h, exception being object e of h.
\* The result is the new heap and the new object: the wrapped error, or,
\* with raised, the error that the target's constructor raised.
wrap_exception(h, e, target, error_code, message, context, suggestions, details) ==
    LET msg == IF message.given THEN message ELSE Some(BaseExceptionStr(h[e]))
        failure == InitFailure(target, error_code, "error")
        built == SplurgeErrorInit(target, error_code, msg, details, "error", FALSE)
        chained == [built EXCEPT !.cause = e]
        withctx == IF TruthyMap(context)
                   THEN attach_context(chained, NoKey, NoValue, context).obj
                   ELSE chained
        withsugg == IF TruthySeq(suggestions)
                    THEN AddSuggestions(withctx, suggestions.v)
                    ELSE withctx
    IN  IF failure /= "none"
        THEN [heap |-> Append(h, ForeignError(failure,
                                 InitFailureMessage(target, error_code, "error"))),
              raised |-> TRUE, obj |-> Len(h) + 1]
        ELSE [heap |-> Append(h, withsugg), raised |-> FALSE, obj |-> Len(h) + 1]

-----------------------------------------------------------------------------
(* Inputs.                                                                 *)

\* exceptions={ValueError: (SplurgeValueError, "c1")}
MapValueOnly ==
    "ValueError" :> [target |-> "SplurgeValueError", error_code |-> Some(<<"c", "1">>)]

\* A mapping that also names a non-local-control type, and whose entry for
\* KeyError carries no error code (None).
MapMixed ==
    ("ValueError" :> [target |-> "SplurgeRuntimeError", error_code |-> Some(<<"c", "2">>)])
    @@ ("KeyboardInterrupt" :> [target |-> "SplurgeRuntimeError", error_code |-> Some(<<"c", "2">>)])
    @@ ("KeyError" :> [target |-> "SplurgeValueError", error_code |-> NoneCode])

\* A mapping none of whose entries can be built: an empty code, a malformed
\* code, a target whose _domain is empty and a target that declares none.
MapInvalid ==
    ("ValueError" :> [target |-> "SplurgeValueError", error_code |-> Some(<<>>)])
    @@ ("KeyError" :> [target |-> "SplurgeValueError",
                       error_code |-> Some(<<"B", "a", "d">>)])
    @@ ("UnicodeError" :> [target |-> "EmptyDomainError",
                           error_code |-> Some(<<"c", "1">>)])
    @@ ("KeyboardInterrupt" :> [target |-> "SplurgeError",
                                error_code |-> Some(<<"c", "1">>)])

\* The `exceptions` arguments tried: absent, empty, and the two above.
ExceptionMaps == {NoneMap, Some(EmptyMap), Some(MapValueOnly), Some(MapMixed)}

\* The `context` arguments tried: absent, empty, scalar and mapping values
\* for the shared key "k", and a second key.
ContextMaps ==
    {NoneMap, Some(EmptyMap),
     Some("k" :> Scalar("outer")),
     Some("k" :> Scalar("inner")),
     Some("k" :> Mapping({<<"a", 1>>})),
     Some(("k" :> Mapping({<<"b", 2>>})) @@ ("j" :> Scalar("x")))}

\* What the with-block (or the decorated function) raises.
BlockMessages == {"boom"}

\* What a user callback raises when it fails.
CallbackFailureTypes == {"ValueError", "KeyboardInterrupt"}

CallbackMessage == "Callback failed"

-----------------------------------------------------------------------------
(* error_context (managers/exception.py).                                  *)

IsInstanceException_unchecked(h, e) == TRUE

\* isinstance(err, Exception)
IsInstanceException(h, e) == IsSubclass(h[e].cls, "Exception")

TypeOf_nearest_key(h, e) ==
    IF h[e].cls = "UnicodeError" THEN "ValueError" ELSE h[e].cls

\* type(e): the exact runtime class of object e, the key of both lookups.
TypeOf(h, e) == h[e].cls

\* "exceptions and type(e) in exceptions"
IsMapped(exceptions, cls) == TruthyMap(exceptions) /\ cls \in DOMAIN exceptions.v

Normal == [kind |-> "normal", exc |-> 0]

Raised(e) == [kind |-> "raised", exc |-> e]

Running == [kind |-> "running", exc |-> 0]

Idle == [kind |-> "idle", exc |-> 0]

\* The innermost open invocation.
Top == stack[Len(stack)]

\* A callback call as the callback sees it: which callback of which
\* invocation, its argument, and the argument's context at that moment.
CallRecord_passes_cause(i, cb, arg, h) ==
    LET a == IF arg /= 0 /\ h[arg].cause /= 0 THEN h[arg].cause ELSE arg IN
    [inv |-> i, cb |-> cb, arg |-> a,
     context |-> IF a = 0 THEN EmptyMap ELSE h[a].context]

CallRecord(i, cb, arg, h) ==
    [inv |-> i, cb |-> cb, arg |-> arg,
     context |-> IF arg = 0 THEN EmptyMap ELSE h[arg].context]

\* The generator of invocation i finishes with outcome out (its final
\* record being rec): control returns to the enclosing with-block, or, for
\* the outermost handler, to the caller.  An exception that leaves an inner
\* handler is thrown into the enclosing handler's generator.
Leave(i, h, rec, out) ==
    /\ heap' = h
    /\ stack' = SubSeq(stack, 1, Len(stack) - 1)
    /\ IF Len(stack) = 1
       THEN /\ invs' = [invs EXCEPT ![i] = [rec EXCEPT !.pc = "done", !.exit = out]]
            /\ result' = out
       ELSE LET p == stack[Len(stack) - 1] IN
            /\ invs' = [invs EXCEPT
                   ![i] = [rec EXCEPT !.pc = "done", !.exit = out],
                   ![p] = IF out.kind = "raised"
                          THEN [@ EXCEPT !.pc = "thrown", !.err = out.exc]
                          ELSE @]
            /\ result' = result

ReraiseOrSuppress_ignores_suppress(suppress, e) == Raised(e)

\* Lines 92-94: "if not suppress: raise wrapped from e" after on_error was
\* absent or returned.
ReraiseOrSuppress(suppress, wrapped) == IF ~suppress THEN Raised(wrapped) ELSE Normal

UnmappedReraiseOrSuppress_falls_through(suppress, e) == Normal

\* Lines 106-108: "if not suppress: raise" after on_error was absent or
\* returned; the bare raise re-raises the caught exception e.
UnmappedReraiseOrSuppress(suppress, e) == IF ~suppress THEN Raised(e) ELSE Normal

MappedCallbackFailed_raises_callback(suppress, wrapped, c) ==
    IF ~suppress THEN Raised(c) ELSE Normal

\* Lines 86-90: on_error(wrapped) raised an Exception c.
MappedCallbackFailed(suppress, wrapped, c) ==
    IF ~suppress THEN Raised(wrapped) ELSE Normal

UnmappedCallbackFailed_raises_original(suppress, e, c) ==
    IF ~suppress THEN Raised(e) ELSE Normal

\* Lines 100-104: on_error(e) raised an Exception c; the bare raise re-raises
\* the exception being handled by the innermost except clause, which is c.
UnmappedCallbackFailed(suppress, e, c) ==
    IF ~suppress THEN Raised(c) ELSE Normal

\* Lines 60-81 and 95-97: the generator catches exception e (heap h already
\* holds it) and runs up to the point where on_error is called, or to the end
\* when there is no on_error.
Caught(i, rec, h, e) ==
    LET inv == [rec EXCEPT !.err = e] IN
    IF ~IsInstanceException(h, e)
    THEN /\ Leave(i, h, inv, Raised(e))
         /\ calls' = calls
    ELSE IF IsMapped(inv.exceptions, TypeOf(h, e))
    THEN LET m == inv.exceptions.v[TypeOf(h, e)]
             w == wrap_exception(h, e, m.target, m.error_code,
                                 NoneStr, NoneMap, NoneSeq, NoneMap)
             h2 == IF TruthyMap(inv.context)
                   THEN [w.heap EXCEPT ![w.obj] =
                            attach_context(@, NoKey, NoValue, inv.context).obj]
                   ELSE w.heap
         IN  IF w.raised
             THEN /\ Leave(i, w.heap, inv, Raised(w.obj))
                  /\ calls' = calls
             ELSE IF inv.on_error
             THEN /\ heap' = h2
                  /\ invs' = [invs EXCEPT ![i] =
                        [inv EXCEPT !.pc = "on_error", !.mapped = TRUE, !.wrapped = w.obj]]
                  /\ calls' = Append(calls, CallRecord(i, "on_error", w.obj, h2))
                  /\ UNCHANGED <<stack, result>>
             ELSE /\ Leave(i, h2, [inv EXCEPT !.mapped = TRUE, !.wrapped = w.obj],
                           ReraiseOrSuppress(inv.suppress, w.obj))
                  /\ calls' = calls
    ELSE IF inv.on_error
    THEN /\ heap' = h
         /\ invs' = [invs EXCEPT ![i] = [inv EXCEPT !.pc = "on_error"]]
         /\ calls' = Append(calls, CallRecord(i, "on_error", e, h))
         /\ UNCHANGED <<stack, result>>
    ELSE /\ Leave(i, h, inv, UnmappedReraiseOrSuppress(inv.suppress, e))
         /\ calls' = calls

\* The state of a handler whose generator has run up to its yield.
NewInvocation(exceptions, context, on_success, on_error, suppress) ==
    [exceptions |-> exceptions, context |-> context,
     on_success |-> on_success, on_error |-> on_error, suppress |-> suppress,
     pc |-> "block", block |-> "open", err |-> 0,
     mapped |-> FALSE, wrapped |-> 0, cberr |-> 0, exit |-> Running]

\* with error_context(exceptions, context, on_success, on_error, suppress):
\* at top level.
Enter(exceptions, context, on_success, on_error, suppress) ==
    /\ stack = <<>>
    /\ result = Idle
    /\ ~dec.set
    /\ invs' = Append(invs, NewInvocation(exceptions, context, on_success,
                                          on_error, suppress))
    /\ stack' = Append(stack, Len(invs) + 1)
    /\ result' = Running
    /\ UNCHANGED <<heap, calls, dec, logs, ncalls, dres, dicts, api, prev, nops, caller>>

\* The same statement as the first statement of the block of an open
\* outermost handler.
EnterInner(exceptions, context, on_success, on_error, suppress) ==
    /\ Len(stack) = 1
    /\ invs[Top].pc = "block"
    /\ Len(invs) = 1
    /\ invs' = Append(invs, NewInvocation(exceptions, context, on_success,
                                          on_error, suppress))
    /\ stack' = Append(stack, Len(invs) + 1)
    /\ UNCHANGED <<heap, calls, result, dec, logs, ncalls, dres, dicts, api, prev, nops, caller>>

\* Lines 56-59: the block ends without raising; on_success is called if given.
BlockReturns ==
    /\ stack /= <<>>
    /\ invs[Top].pc = "block"
    /\ LET inv == [invs[Top] EXCEPT !.block = "returned"] IN
       IF inv.on_success
       THEN /\ invs' = [invs EXCEPT ![Top] = [inv EXCEPT !.pc = "on_success"]]
            /\ calls' = Append(calls, CallRecord(Top, "on_success", 0, heap))
            /\ UNCHANGED <<heap, stack, result>>
       ELSE /\ Leave(Top, heap, inv, Normal)
            /\ calls' = calls
    /\ UNCHANGED <<dec, logs, ncalls, dres, dicts, api, prev, nops, caller>>

\* on_success() returns.
OnSuccessReturns ==
    /\ stack /= <<>>
    /\ invs[Top].pc = "on_success"
    /\ Leave(Top, heap, invs[Top], Normal)
    /\ UNCHANGED <<calls, dec, logs, ncalls, dres, dicts, api, prev, nops, caller>>

\* on_success() raises: the call sits inside the try, so the except clause
\* of line 60 catches what it raises.
OnSuccessRaises(cls) ==
    /\ stack /= <<>>
    /\ invs[Top].pc = "on_success"
    /\ Caught(Top, invs[Top], Append(heap, ForeignError(cls, CallbackMessage)),
              Len(heap) + 1)
    /\ UNCHANGED <<dec, logs, ncalls, dres, dicts, api, prev, nops, caller>>

\* The exception object that "raise cls(msg)" creates; for a SplurgeError
\* subtype the block writes cls("c9", message=msg).
NewException(cls, msg) ==
    IF cls \in SplurgeTypes
    THEN SplurgeErrorInit(cls, Some(<<"c", "9">>), Some(msg), NoneMap, "error", FALSE)
    ELSE ForeignError(cls, msg)

\* The block raises a new exception cls(msg).
BlockRaises(cls, msg) ==
    /\ stack /= <<>>
    /\ invs[Top].pc = "block"
    /\ Caught(Top, [invs[Top] EXCEPT !.block = "raised"],
              Append(heap, NewException(cls, msg)), Len(heap) + 1)
    /\ UNCHANGED <<dec, logs, ncalls, dres, dicts, api, prev, nops, caller>>

\* The exception that left the inner handler reaches the enclosing handler's
\* generator (gen.throw) and is caught at line 60.
InnerPropagates ==
    /\ stack /= <<>>
    /\ invs[Top].pc = "thrown"
    /\ Caught(Top, [invs[Top] EXCEPT !.block = "raised"], heap, invs[Top].err)
    /\ UNCHANGED <<dec, logs, ncalls, dres, dicts, api, prev, nops, caller>>

\* on_error(...) returns: lines 92-94 (mapped) or 106-108 (unmapped).
OnErrorReturns ==
    /\ stack /= <<>>
    /\ invs[Top].pc = "on_error"
    /\ LET inv == invs[Top] IN
       Leave(Top, heap, inv,
             IF inv.mapped
             THEN ReraiseOrSuppress(inv.suppress, inv.wrapped)
             ELSE UnmappedReraiseOrSuppress(inv.suppress, inv.err))
    /\ UNCHANGED <<calls, dec, logs, ncalls, dres, dicts, api, prev, nops, caller>>

OnErrorRaises_catches_everything(cls) ==
    /\ stack /= <<>>
    /\ invs[Top].pc = "on_error"
    /\ LET h == Append(heap, ForeignError(cls, CallbackMessage))
           c == Len(heap) + 1
           inv == [invs[Top] EXCEPT !.cberr = c]
       IN  Leave(Top, h, inv,
                 IF inv.mapped
                 THEN MappedCallbackFailed(inv.suppress, inv.wrapped, c)
                 ELSE UnmappedCallbackFailed(inv.suppress, inv.err, c))
    /\ UNCHANGED <<calls, dec, logs, ncalls, dres, dicts, api, prev, nops, caller>>

\* on_error(...) raises cls: "except Exception" (lines 86, 100) catches it
\* only when it is an Exception; anything else leaves the generator.
OnErrorRaises(cls) ==
    /\ stack /= <<>>
    /\ invs[Top].pc = "on_error"
    /\ LET h == Append(heap, ForeignError(cls, CallbackMessage))
           c == Len(heap) + 1
           inv == [invs[Top] EXCEPT !.cberr = c]
       IN  Leave(Top, h, inv,
                 IF ~IsInstanceException(h, c) THEN Raised(c)
                 ELSE IF inv.mapped
                 THEN MappedCallbackFailed(inv.suppress, inv.wrapped, c)
                 ELSE UnmappedCallbackFailed(inv.suppress, inv.err, c))
    /\ UNCHANGED <<calls, dec, logs, ncalls, dres, dicts, api, prev, nops, caller>>

-----------------------------------------------------------------------------
(* handle_exceptions (decorators/error_handler.py).                        *)

\* The number of calls made to the decorated function.
MaxCalls == 2

\* The methods of logging.Logger that the documented log levels name.
LoggerLevels == {"debug", "info", "warning", "error", "critical"}

\* The log_level arguments tried: the documented ones and an unknown name.
LogLevelArgs == LoggerLevels \cup {"verbose"}

LogFunc_error_only(log_level) == "error"

\* getattr(logger, log_level, logger.error): the level the record is logged at.
LogFunc(log_level) == IF log_level \in LoggerLevels THEN log_level ELSE "error"

InExceptions_exceptions_only(exceptions, cls) ==
    cls \in DOMAIN exceptions.v /\ IsSubclass(cls, "Exception")

\* "source_exc_type not in exceptions" negated; exceptions is a dict here.
InExceptions(exceptions, cls) == cls \in DOMAIN exceptions.v

NoDecorator ==
    [set |-> FALSE, exceptions |-> Some(EmptyMap), log_level |-> "error",
     reraise |-> TRUE, include_traceback |-> TRUE]

NoCall ==
    [kind |-> "none", exc |-> 0, value |-> "", err |-> 0, wrapped |-> 0, logged |-> 0]

\* @handle_exceptions(exceptions, log_level, reraise, include_traceback)
Decorate(exceptions, log_level, reraise, include_traceback) ==
    /\ ~dec.set
    /\ result = Idle
    /\ dec' = [set |-> TRUE, exceptions |-> exceptions, log_level |-> log_level,
               reraise |-> reraise, include_traceback |-> include_traceback]
    /\ UNCHANGED <<heap, invs, stack, calls, result, logs, ncalls, dres, dicts, api, prev, nops, caller>>

\* A call of the decorated function that returns value.
CallReturns(value) ==
    /\ dec.set
    /\ ncalls < MaxCalls
    /\ ncalls' = ncalls + 1
    /\ dres' = [NoCall EXCEPT !.kind = "returned", !.value = value, !.logged = Len(logs)]
    /\ UNCHANGED <<heap, invs, stack, calls, result, dec, logs, dicts, api, prev, nops, caller>>

\* The record handed to log_func at lines 85-91.
LogRecord(level, w, include_traceback) ==
    [level |-> level, error_code |-> w.error_code, message |-> w.message,
     exc_info |-> include_traceback]

NotMapped_honours_reraise(reraise, e) ==
    IF reraise
    THEN [kind |-> "raised", exc |-> e, value |-> ""]
    ELSE [kind |-> "returned", exc |-> 0, value |-> "None"]

\* Lines 66-69: "Not mapped, reraise as-is": the bare raise re-raises e.
NotMapped(reraise, e) == [kind |-> "raised", exc |-> e, value |-> ""]

\* Lines 93-97.
ReraiseOrReturnNone(reraise, w) ==
    IF reraise
    THEN [kind |-> "raised", exc |-> w, value |-> ""]
    ELSE [kind |-> "returned", exc |-> 0, value |-> "None"]

\* A call of the decorated function in which the function raises cls(msg):
\* the wrapper's except clause, lines 63-97.
CallRaises(cls, msg) ==
    /\ dec.set
    /\ ncalls < MaxCalls
    /\ ncalls' = ncalls + 1
    /\ LET h == Append(heap, ForeignError(cls, msg))
           e == Len(heap) + 1
       IN  IF ~InExceptions(dec.exceptions, TypeOf(h, e))
           THEN /\ heap' = h
                /\ logs' = logs
                /\ dres' = [NoCall EXCEPT !.kind = NotMapped(dec.reraise, e).kind,
                                          !.exc = NotMapped(dec.reraise, e).exc,
                                          !.value = NotMapped(dec.reraise, e).value,
                                          !.err = e, !.logged = Len(logs)]
           ELSE LET m == dec.exceptions.v[TypeOf(h, e)]
                    w == wrap_exception(h, e, m.target, m.error_code,
                                        NoneStr, NoneMap, NoneSeq, NoneMap)
                    out == ReraiseOrReturnNone(dec.reraise, w.obj)
                IN  IF w.raised
                    THEN /\ heap' = w.heap
                         /\ logs' = logs
                         /\ dres' = [NoCall EXCEPT !.kind = "raised", !.exc = w.obj,
                                                   !.err = e, !.logged = Len(logs)]
                    ELSE /\ heap' = w.heap
                         /\ logs' = Append(logs, LogRecord(LogFunc(dec.log_level),
                                                           w.heap[w.obj],
                                                           dec.include_traceback))
                         /\ dres' = [kind |-> out.kind, exc |-> out.exc,
                                     value |-> out.value, err |-> e,
                                     wrapped |-> w.obj, logged |-> Len(logs)]
    /\ UNCHANGED <<invs, stack, calls, result, dec, dicts, api, prev, nops, caller>>

-----------------------------------------------------------------------------
(* Direct calls on SplurgeError and wrap_exception, and the caller's dicts. *)

\* The number of direct calls and caller steps in one run.
MaxOps == 5

\* The number of dict objects the caller creates.
MaxDicts == 2

\* A value that is a reference to the caller's dict object id: a nested
\* mutable value, shared by every mapping that holds it.
Ref(id) == [tag |-> "ref", s |-> "", m |-> {<<"id", id>>}]

\* The optional argument that passes the caller's dict object id; 0 is None.
DictArg(ds, id) ==
    IF id = 0 THEN NoneMap ELSE [given |-> TRUE, v |-> ds[id], id |-> id]

Keys == {"k", "j"}

ScalarValues == {Scalar("x"), Scalar("y")}

\* The dict literals the caller writes when ds are the dicts it already holds.
DictContents(ds) ==
    {EmptyMap, "k" :> Scalar("x"), ("k" :> Scalar("y")) @@ ("j" :> Scalar("x"))}
    \cup {"k" :> Ref(i) : i \in 1..Len(ds)}

NoApi == [op |-> "none", args |-> <<>>, ok |-> TRUE, raised |-> "none",
          ret |-> 0, out |-> <<>>]

\* The objects of the heap that are SplurgeError instances.
Instances(h) == {o \in 1..Len(h) : IsSubclass(h[o].cls, "SplurgeError")}

\* d = {...}: the caller creates a dict object.
NewDict(content) ==
    /\ nops < MaxOps
    /\ Len(dicts) < MaxDicts
    /\ dicts' = Append(dicts, content)
    /\ api' = [NoApi EXCEPT !.op = "new_dict", !.args = [dict |-> Len(dicts) + 1]]
    /\ prev' = [heap |-> heap, dicts |-> dicts]
    /\ nops' = nops + 1
    /\ UNCHANGED <<heap, invs, stack, calls, result, dec, logs, ncalls, dres, caller>>

\* d[key] = value: the caller adds or replaces a top-level key of its dict d.
DictSetItem(d, key, value) ==
    /\ nops < MaxOps
    /\ d \in 1..Len(dicts)
    /\ dicts' = [dicts EXCEPT ![d] = DictUpdate(@, key :> value)]
    /\ api' = [NoApi EXCEPT !.op = "dict_setitem",
                            !.args = [dict |-> d, key |-> key, value |-> value]]
    /\ prev' = [heap |-> heap, dicts |-> dicts]
    /\ nops' = nops + 1
    /\ UNCHANGED <<heap, invs, stack, calls, result, dec, logs, ncalls, dres, caller>>

\* del d[key]: the caller removes a top-level key of its dict d.
DictDelItem(d, key) ==
    /\ nops < MaxOps
    /\ d \in 1..Len(dicts)
    /\ key \in DOMAIN dicts[d]
    /\ dicts' = [dicts EXCEPT ![d] = [k \in (DOMAIN @) \ {key} |-> @[k]]]
    /\ api' = [NoApi EXCEPT !.op = "dict_delitem",
                            !.args = [dict |-> d, key |-> key]]
    /\ prev' = [heap |-> heap, dicts |-> dicts]
    /\ nops' = nops + 1
    /\ UNCHANGED <<heap, invs, stack, calls, result, dec, logs, ncalls, dres, caller>>

\* cls(error_code, message=message, details=d, severity=severity,
\* recoverable=recoverable), d being the caller's dict object `details`.
Construct(cls, error_code, message, details, severity, recoverable) ==
    /\ nops < MaxOps
    /\ details \in 0..Len(dicts)
    /\ LET failure == InitFailure(cls, error_code, severity)
           args == [cls |-> cls, error_code |-> error_code, message |-> message,
                    details |-> details, severity |-> severity,
                    recoverable |-> recoverable]
       IN  IF failure = "none"
           THEN /\ heap' = Append(heap, SplurgeErrorInit(cls, error_code, message,
                                            DictArg(dicts, details), severity,
                                            recoverable))
                /\ api' = [NoApi EXCEPT !.op = "construct", !.args = args,
                                        !.ret = Len(heap) + 1]
           ELSE /\ heap' = heap
                /\ api' = [NoApi EXCEPT !.op = "construct", !.args = args,
                                        !.ok = FALSE, !.raised = failure]
    /\ prev' = [heap |-> heap, dicts |-> dicts]
    /\ nops' = nops + 1
    /\ UNCHANGED <<invs, stack, calls, result, dec, logs, ncalls, dres, dicts, caller>>

\* heap[o].attach_context(key=key, value=value, context_dict=d), d being the
\* caller's dict object `context_dict`; the call returns self or raises
\* ValueError.
AttachContext(o, key, value, context_dict) ==
    /\ nops < MaxOps
    /\ o \in Instances(heap)
    /\ context_dict \in 0..Len(dicts)
    /\ LET r == attach_context(heap[o], key, value, DictArg(dicts, context_dict))
           args == [obj |-> o, key |-> key, value |-> value,
                    context_dict |-> context_dict]
       IN  /\ heap' = [heap EXCEPT ![o] = r.obj]
           /\ api' = IF r.ok
                     THEN [NoApi EXCEPT !.op = "attach_context", !.args = args,
                                        !.ret = o]
                     ELSE [NoApi EXCEPT !.op = "attach_context", !.args = args,
                                        !.ok = FALSE, !.raised = "ValueError"]
    /\ prev' = [heap |-> heap, dicts |-> dicts]
    /\ nops' = nops + 1
    /\ UNCHANGED <<invs, stack, calls, result, dec, logs, ncalls, dres, dicts, caller>>

\* heap[o].add_suggestion(suggestion); the call returns self.
AddSuggestion(o, suggestion) ==
    /\ nops < MaxOps
    /\ o \in Instances(heap)
    /\ heap' = [heap EXCEPT ![o] = add_suggestion(@, suggestion)]
    /\ api' = [NoApi EXCEPT !.op = "add_suggestion",
                            !.args = [obj |-> o, suggestion |-> suggestion],
                            !.ret = o]
    /\ prev' = [heap |-> heap, dicts |-> dicts]
    /\ nops' = nops + 1
    /\ UNCHANGED <<invs, stack, calls, result, dec, logs, ncalls, dres, dicts, caller>>

\* heap[o].full_code is read.
ReadFullCode(o) ==
    /\ nops < MaxOps
    /\ o \in Instances(heap)
    /\ api' = [NoApi EXCEPT !.op = "full_code", !.args = [obj |-> o],
                            !.out = FullCode(heap[o])]
    /\ prev' = [heap |-> heap, dicts |-> dicts]
    /\ nops' = nops + 1
    /\ UNCHANGED <<heap, invs, stack, calls, result, dec, logs, ncalls, dres, dicts, caller>>

\* wrap_exception(cls(msg), target, error_code, message=message, context=c,
\* suggestions=suggestions, details=d), c and d being the caller's dict
\* objects `context` and `details`.
Wrap(cls, msg, target, error_code, message, context, suggestions, details) ==
    /\ nops < MaxOps
    /\ context \in 0..Len(dicts)
    /\ details \in 0..Len(dicts)
    /\ LET h == Append(heap, ForeignError(cls, msg))
           e == Len(heap) + 1
           w == wrap_exception(h, e, target, error_code, message,
                               DictArg(dicts, context), suggestions,
                               DictArg(dicts, details))
           args == [exc |-> e, target |-> target, error_code |-> error_code,
                    message |-> message, context |-> context,
                    suggestions |-> suggestions, details |-> details]
       IN  /\ heap' = w.heap
           /\ api' = IF w.raised
                     THEN [NoApi EXCEPT !.op = "wrap_exception", !.args = args,
                                        !.ok = FALSE,
                                        !.raised = w.heap[w.obj].cls,
                                        !.ret = w.obj]
                     ELSE [NoApi EXCEPT !.op = "wrap_exception", !.args = args,
                                        !.ret = w.obj]
           /\ prev' = [heap |-> h, dicts |-> dicts]
    /\ nops' = nops + 1
    /\ UNCHANGED <<invs, stack, calls, result, dec, logs, ncalls, dres, dicts, caller>>

\* The number of dicts and lists the caller gets from accessors.
MaxCopies == 2

details_property_returns_internal(o, ds) ==
    IF o.details_id /= 0
    THEN [dicts |-> ds, obj |-> o, ret |-> o.details_id]
    ELSE [dicts |-> Append(ds, o.details),
          obj |-> [o EXCEPT !.details_id = Len(ds) + 1], ret |-> Len(ds) + 1]

\* The details property, "return self._details.copy()": the caller's dicts
\* with the new dict added, the instance, and the identity of the dict
\* returned.
details_property(o, ds) ==
    [dicts |-> Append(ds, DetailsOf(o, ds)), obj |-> o, ret |-> Len(ds) + 1]

\* SplurgeError.get_all_context, "return self._context.copy()"
get_all_context(o, ds) ==
    [dicts |-> Append(ds, o.context), obj |-> o, ret |-> Len(ds) + 1]

\* SplurgeError.get_suggestions, "return self._suggestions.copy()": the
\* caller's lists with the new list added, and the identity of that list.
get_suggestions(o, ls) ==
    [lists |-> Append(ls, o.suggestions), ret |-> Len(ls) + 1]

\* The caller still has room for one more object returned by an accessor.
RoomForCopy == Cardinality(caller.returned) < MaxCopies

\* The caller's note that its dict or list id came from an accessor of
\* instance o.
Copy(kind, id, o) == [kind |-> kind, id |-> id, obj |-> o]

\* heap[o].details is read.
GetDetails(o) ==
    /\ nops < MaxOps
    /\ RoomForCopy
    /\ o \in Instances(heap)
    /\ LET r == details_property(heap[o], dicts) IN
           /\ heap' = [heap EXCEPT ![o] = r.obj]
           /\ dicts' = r.dicts
           /\ caller' = [caller EXCEPT !.returned = @ \cup {Copy("dict", r.ret, o)}]
           /\ api' = [NoApi EXCEPT !.op = "details", !.args = [obj |-> o],
                                   !.ret = r.ret]
    /\ prev' = [heap |-> heap, dicts |-> dicts]
    /\ nops' = nops + 1
    /\ UNCHANGED <<invs, stack, calls, result, dec, logs, ncalls, dres>>

\* heap[o].get_all_context()
GetAllContext(o) ==
    /\ nops < MaxOps
    /\ RoomForCopy
    /\ o \in Instances(heap)
    /\ LET r == get_all_context(heap[o], dicts) IN
           /\ heap' = [heap EXCEPT ![o] = r.obj]
           /\ dicts' = r.dicts
           /\ caller' = [caller EXCEPT !.returned = @ \cup {Copy("dict", r.ret, o)}]
           /\ api' = [NoApi EXCEPT !.op = "get_all_context", !.args = [obj |-> o],
                                   !.ret = r.ret]
    /\ prev' = [heap |-> heap, dicts |-> dicts]
    /\ nops' = nops + 1
    /\ UNCHANGED <<invs, stack, calls, result, dec, logs, ncalls, dres>>

\* heap[o].get_suggestions()
GetSuggestions(o) ==
    /\ nops < MaxOps
    /\ RoomForCopy
    /\ o \in Instances(heap)
    /\ LET r == get_suggestions(heap[o], caller.lists) IN
           /\ caller' = [caller EXCEPT !.lists = r.lists,
                                       !.returned = @ \cup {Copy("list", r.ret, o)}]
           /\ api' = [NoApi EXCEPT !.op = "get_suggestions", !.args = [obj |-> o],
                                   !.ret = r.ret]
    /\ prev' = [heap |-> heap, dicts |-> dicts]
    /\ nops' = nops + 1
    /\ UNCHANGED <<heap, invs, stack, calls, result, dec, logs, ncalls, dres, dicts>>

\* l.append(item): the caller adds an item to a list it holds.
ListAppend(l, item) ==
    /\ nops < MaxOps
    /\ l \in 1..Len(caller.lists)
    /\ caller' = [caller EXCEPT !.lists[l] = Append(@, item)]
    /\ api' = [NoApi EXCEPT !.op = "list_append",
                            !.args = [list |-> l, item |-> item]]
    /\ prev' = [heap |-> heap, dicts |-> dicts]
    /\ nops' = nops + 1
    /\ UNCHANGED <<heap, invs, stack, calls, result, dec, logs, ncalls, dres, dicts>>

\* l[0] = item: the caller replaces the first item of a list it holds.
ListSetItem(l, item) ==
    /\ nops < MaxOps
    /\ l \in 1..Len(caller.lists)
    /\ caller.lists[l] /= <<>>
    /\ caller' = [caller EXCEPT !.lists[l] = [@ EXCEPT ![1] = item]]
    /\ api' = [NoApi EXCEPT !.op = "list_setitem",
                            !.args = [list |-> l, item |-> item]]
    /\ prev' = [heap |-> heap, dicts |-> dicts]
    /\ nops' = nops + 1
    /\ UNCHANGED <<heap, invs, stack, calls, result, dec, logs, ncalls, dres, dicts>>

\* l.pop(): the caller removes the last item of a list it holds.
ListPop(l) ==
    /\ nops < MaxOps
    /\ l \in 1..Len(caller.lists)
    /\ caller.lists[l] /= <<>>
    /\ caller' = [caller EXCEPT !.lists[l] = SubSeq(@, 1, Len(@) - 1)]
    /\ api' = [NoApi EXCEPT !.op = "list_pop", !.args = [list |-> l]]
    /\ prev' = [heap |-> heap, dicts |-> dicts]
    /\ nops' = nops + 1
    /\ UNCHANGED <<heap, invs, stack, calls, result, dec, logs, ncalls, dres, dicts>>

\* heap[o].clear_context(); the call returns self.
ClearContext(o) ==
    /\ nops < MaxOps
    /\ o \in Instances(heap)
    /\ heap' = [heap EXCEPT ![o] = clear_context(@)]
    /\ api' = [NoApi EXCEPT !.op = "clear_context", !.args = [obj |-> o],
                            !.ret = o]
    /\ prev' = [heap |-> heap, dicts |-> dicts]
    /\ nops' = nops + 1
    /\ UNCHANGED <<invs, stack, calls, result, dec, logs, ncalls, dres, dicts, caller>>

\* heap[o].has_suggestions()
HasSuggestions(o) ==
    /\ nops < MaxOps
    /\ o \in Instances(heap)
    /\ api' = [NoApi EXCEPT !.op = "has_suggestions", !.args = [obj |-> o],
                            !.out = has_suggestions(heap[o])]
    /\ prev' = [heap |-> heap, dicts |-> dicts]
    /\ nops' = nops + 1
    /\ UNCHANGED <<heap, invs, stack, calls, result, dec, logs, ncalls, dres, dicts, caller>>

\* pickle.loads(pickle.dumps(heap[o])): the restored object is a new one.
RoundTrip(o) ==
    /\ nops < MaxOps
    /\ o \in Instances(heap)
    /\ LET r == PickleRoundTrip(heap[o], dicts) IN
           /\ heap' = IF r.ok THEN Append(heap, r.obj) ELSE heap
           /\ api' = IF r.ok
                     THEN [NoApi EXCEPT !.op = "pickle_roundtrip",
                                        !.args = [obj |-> o],
                                        !.ret = Len(heap) + 1]
                     ELSE [NoApi EXCEPT !.op = "pickle_roundtrip",
                                        !.args = [obj |-> o],
                                        !.ok = FALSE, !.raised = r.raised]
    /\ prev' = [heap |-> heap, dicts |-> dicts]
    /\ nops' = nops + 1
    /\ UNCHANGED <<invs, stack, calls, result, dec, logs, ncalls, dres, dicts, caller>>

\* heap[o].__setstate__(state)
SetState(o, state) ==
    /\ nops < MaxOps
    /\ o \in Instances(heap)
    /\ LET r == __setstate__(heap[o], state)
           args == [obj |-> o, state |-> state]
       IN  /\ heap' = [heap EXCEPT ![o] = r.obj]
           /\ api' = IF r.ok
                     THEN [NoApi EXCEPT !.op = "setstate", !.args = args]
                     ELSE [NoApi EXCEPT !.op = "setstate", !.args = args,
                                        !.ok = FALSE, !.raised = "AttributeError"]
    /\ prev' = [heap |-> heap, dicts |-> dicts]
    /\ nops' = nops + 1
    /\ UNCHANGED <<invs, stack, calls, result, dec, logs, ncalls, dres, dicts, caller>>

-----------------------------------------------------------------------------
(* The formatter (ErrorMessageFormatter).                                  *)

\* A context value whose __str__ raises while its __repr__ returns r.
BrokenStr(r) == [tag |-> "broken_str", s |-> r, m |-> {}]

\* A context value whose __str__ and __repr__ both raise.
BrokenRepr == [tag |-> "broken_repr", s |-> "", m |-> {}]

\* str(v): the display conversion of a context value; ok is FALSE when it
\* raises. A scalar text displays as itself, a mapping as a braced text.
Str(v) ==
    IF v.tag \in {"broken_str", "broken_repr"} THEN [ok |-> FALSE, text |-> ""]
    ELSE IF v.tag = "scalar" THEN [ok |-> TRUE, text |-> v.s]
    ELSE [ok |-> TRUE, text |-> "{...}"]

\* The fixed token that stands for a value without a text form.
Placeholder == "<unrepresentable>"

SafeText_propagates(v) == Str(v)

\* The text form of a context value as the formatter takes it.
SafeText(v) == IF Str(v).ok THEN Str(v) ELSE [ok |-> TRUE, text |-> Placeholder]

\* format_context(map): one entry per key, in the order the map iterates
\* its keys; ok is FALSE when producing it raises.
RECURSIVE format_context(_, _)
format_context(map, order) ==
    IF order = <<>> THEN [ok |-> TRUE, out |-> <<>>]
    ELSE LET t == SafeText(map[Head(order)])
             rest == format_context(map, Tail(order))
         IN  [ok |-> t.ok /\ rest.ok,
              out |-> <<[key |-> Head(order), text |-> t.text]>> \o rest.out]

\* format_suggestions(list): one entry per suggestion, in list order.
format_suggestions(list) == [ok |-> TRUE, out |-> list]

\* format_error(error, include_context, include_suggestions): the summary
\* (code and message), then the context and the suggestions when asked for.
format_error(o, order, include_context, include_suggestions) ==
    LET c == IF include_context THEN format_context(o.context, order)
             ELSE [ok |-> TRUE, out |-> <<>>]
        g == IF include_suggestions THEN format_suggestions(o.suggestions)
             ELSE [ok |-> TRUE, out |-> <<>>]
    IN  [ok |-> c.ok /\ g.ok,
         out |-> [summary |-> [code |-> FullCode(o), message |-> o.message],
                  context |-> c.out,
                  suggestions |-> g.out]]

\* The orders in which a map can iterate its keys.
KeyOrders(map) ==
    {q \in [1..Cardinality(DOMAIN map) -> DOMAIN map] :
        \A k \in DOMAIN map : \E i \in DOMAIN q : q[i] = k}

\* ErrorMessageFormatter().format_error(heap[o], include_context,
\* include_suggestions), the context iterating its keys in `order`.
FormatError(o, order, include_context, include_suggestions) ==
    /\ nops < MaxOps
    /\ o \in Instances(heap)
    /\ order \in KeyOrders(heap[o].context)
    /\ LET r == format_error(heap[o], order, include_context, include_suggestions)
           args == [obj |-> o, order |-> order,
                    include_context |-> include_context,
                    include_suggestions |-> include_suggestions]
       IN  api' = IF r.ok
                  THEN [NoApi EXCEPT !.op = "format_error", !.args = args,
                                     !.out = r.out]
                  ELSE [NoApi EXCEPT !.op = "format_error", !.args = args,
                                     !.ok = FALSE, !.raised = "RuntimeError"]
    /\ prev' = [heap |-> heap, dicts |-> dicts]
    /\ nops' = nops + 1
    /\ UNCHANGED <<heap, invs, stack, calls, result, dec, logs, ncalls, dres, dicts, caller>>

-----------------------------------------------------------------------------
(* Specifications.                                                         *)

Init ==
    /\ heap = <<>>
    /\ invs = <<>>
    /\ stack = <<>>
    /\ calls = <<>>
    /\ result = Idle
    /\ dec = NoDecorator
    /\ logs = <<>>
    /\ ncalls = 0
    /\ dres = NoCall
    /\ dicts = <<>>
    /\ api = NoApi
    /\ prev = [heap |-> <<>>, dicts |-> <<>>]
    /\ nops = 0
    /\ caller = [lists |-> <<>>, returned |-> {}]

\* What a block raises: the foreign types and one SplurgeError subtype.
BlockTypes == ForeignTypes \cup {"SplurgeValueError"}

\* One error_context around a block.
Next ==
    \/ \E x \in ExceptionMaps, c \in ContextMaps, s \in BOOLEAN, f \in BOOLEAN,
          q \in BOOLEAN : Enter(x, c, s, f, q)
    \/ BlockReturns
    \/ \E cls \in BlockTypes, msg \in BlockMessages : BlockRaises(cls, msg)
    \/ OnSuccessReturns
    \/ \E cls \in CallbackFailureTypes : OnSuccessRaises(cls)
    \/ OnErrorReturns
    \/ \E cls \in CallbackFailureTypes : OnErrorRaises(cls)

Spec == Init /\ [][Next]_vars

\* Two error_context handlers, the second opened inside the block of the
\* first; on_success is left out of both.
NextNested ==
    \/ \E x \in ExceptionMaps, c \in ContextMaps, f \in BOOLEAN, q \in BOOLEAN :
          Enter(x, c, FALSE, f, q)
    \/ \E x \in ExceptionMaps, c \in ContextMaps, f \in BOOLEAN, q \in BOOLEAN :
          EnterInner(x, c, FALSE, f, q)
    \/ BlockReturns
    \/ \E cls \in ForeignTypes, msg \in BlockMessages : BlockRaises(cls, msg)
    \/ InnerPropagates
    \/ OnErrorReturns
    \/ \E cls \in CallbackFailureTypes : OnErrorRaises(cls)

SpecNested == Init /\ [][NextNested]_vars

\* handle_exceptions around a function that is called up to MaxCalls times.
NextDec ==
    \/ \E x \in ExceptionMaps \ {NoneMap}, l \in LogLevelArgs, r \in BOOLEAN,
          t \in BOOLEAN : Decorate(x, l, r, t)
    \/ \E v \in {"OK"} : CallReturns(v)
    \/ \E cls \in ForeignTypes, msg \in BlockMessages : CallRaises(cls, msg)

SpecDec == Init /\ [][NextDec]_vars

\* The three conversion paths side by side: one error_context, or one
\* handle_exceptions, or one direct wrap_exception call, each also tried with
\* entries that the target type refuses.
ConversionMaps == ExceptionMaps \cup {Some(MapInvalid)}

ConversionCodes == {NoneCode, Some(<<>>), Some(<<"c", "1">>), Some(<<"B", "a", "d">>)}

NextConv ==
    \/ /\ nops = 0
       /\ \E x \in ConversionMaps, c \in {NoneMap, Some("k" :> Scalar("outer"))},
             s \in BOOLEAN, f \in BOOLEAN, q \in BOOLEAN : Enter(x, c, s, f, q)
    \/ BlockReturns
    \/ \E cls \in ForeignTypes, msg \in BlockMessages : BlockRaises(cls, msg)
    \/ OnSuccessReturns
    \/ \E cls \in CallbackFailureTypes : OnSuccessRaises(cls)
    \/ OnErrorReturns
    \/ \E cls \in CallbackFailureTypes : OnErrorRaises(cls)
    \/ /\ nops = 0
       /\ \E x \in ConversionMaps \ {NoneMap}, l \in {"error", "verbose"},
             r \in BOOLEAN, t \in BOOLEAN : Decorate(x, l, r, t)
    \/ \E v \in {"OK"} : CallReturns(v)
    \/ \E cls \in ForeignTypes, msg \in BlockMessages : CallRaises(cls, msg)
    \/ /\ nops = 0 /\ result = Idle /\ ~dec.set
       /\ \E cls \in ForeignTypes, msg \in BlockMessages,
             target \in {"SplurgeValueError", "EmptyDomainError", "SplurgeError"},
             code \in ConversionCodes :
             Wrap(cls, msg, target, code, NoneStr, 0, NoneSeq, 0)

SpecConv == Init /\ [][NextConv]_vars

\* The `message` and `suggestions` arguments tried: absent, empty and given.
MessageArgs == {NoneStr, Some(""), Some("custom")}

SuggestionArgs == {NoneSeq, Some(<<>>), Some(<<"s1", "s2">>), Some(<<"s2", "s1">>)}

\* One direct wrap_exception call, its context and details being absent or
\* dicts that the caller created before.
NextWrap ==
    \/ /\ Instances(heap) = {}
       /\ \E content \in DictContents(dicts) : NewDict(content)
    \/ /\ Instances(heap) = {}
       /\ \E cls \in {"ValueError", "KeyError"}, msg \in BlockMessages,
             target \in SplurgeTypes, message \in MessageArgs,
             context \in 0..Len(dicts), suggestions \in SuggestionArgs,
             details \in 0..Len(dicts) :
             Wrap(cls, msg, target, Some(<<"c", "1">>), message, context,
                  suggestions, details)

SpecWrap == Init /\ [][NextWrap]_vars

\* The longest error_code tried character by character.
MaxCodeLen == 3

\* The characters error codes are built from: a letter, a digit, the dash,
\* and one of each kind the pattern excludes.
CodeChars == {"a", "1", "-", ".", "A", " ", "\n"}

\* The error_code arguments tried: None, every string over CodeChars of up
\* to MaxCodeLen characters, the last component of the hierarchical domain
\* and a proper suffix of it.
CodeArgs ==
    {NoneCode}
    \cup {Some(c) : c \in UNION {[1..n -> CodeChars] : n \in 0..MaxCodeLen}}
    \cup {Some(<<"q", "u", "e", "r", "y">>), Some(<<"e", "r", "y">>)}

\* The classes constructed: the library's, the applications', and the base
\* class, which declares no _domain.
ClassArgs == SplurgeTypes \cup CustomTypes \cup {"SplurgeError"}

SeverityArgs == {"error", "fatal"}

\* One construction, then a read of full_code.
NextInit ==
    \/ /\ nops = 0
       /\ \E cls \in ClassArgs, code \in CodeArgs, severity \in SeverityArgs :
             Construct(cls, code, NoneStr, 0, severity, FALSE)
    \/ /\ nops = 1
       /\ \E o \in Instances(heap) : ReadFullCode(o)

SpecInit == Init /\ [][NextInit]_vars

\* The number of instances constructed in one run.
MaxObjs == 2

\* The `key` arguments tried: absent and each key.
KeyArgs == {NoKey} \cup {Some(k) : k \in Keys}

\* The `value` arguments tried: a scalar and each of the caller's dicts.
ValueArgs(ds) == {Scalar("x")} \cup {Ref(i) : i \in 1..Len(ds)}

\* Up to MaxObjs instances and up to MaxDicts dicts of the caller, in up to
\* MaxOps steps: the caller creates and changes its dicts, constructs
\* instances whose details are absent or one of the dicts, and calls
\* attach_context and add_suggestion on them.
NextErr ==
    \/ \E content \in DictContents(dicts) : NewDict(content)
    \/ \E d \in 1..Len(dicts), key \in Keys, value \in ScalarValues :
          DictSetItem(d, key, value)
    \/ \E d \in 1..Len(dicts), key \in Keys : DictDelItem(d, key)
    \/ /\ Cardinality(Instances(heap)) < MaxObjs
       /\ \E details \in 0..Len(dicts) :
             Construct("SplurgeValueError", Some(<<"c", "1">>), NoneStr, details,
                       "error", FALSE)
    \/ \E o \in Instances(heap), key \in KeyArgs, value \in ValueArgs(dicts),
          d \in 0..Len(dicts) : AttachContext(o, key, value, d)
    \/ \E o \in Instances(heap), suggestion \in {"s1"} :
          AddSuggestion(o, suggestion)

SpecErr == Init /\ [][NextErr]_vars

\* The read accessors: the caller constructs instances, gives them context
\* and suggestions, reads details, context and suggestions, and changes the
\* dicts and lists it holds, those it got from an accessor included.
NextAcc ==
    \/ \E content \in {"k" :> Scalar("x")} : NewDict(content)
    \/ /\ Cardinality(Instances(heap)) < MaxObjs
       /\ \E details \in 0..Len(dicts) :
             Construct("SplurgeValueError", Some(<<"c", "1">>), NoneStr, details,
                       "error", FALSE)
    \/ \E o \in Instances(heap) : AttachContext(o, Some("k"), Scalar("x"), 0)
    \/ \E o \in Instances(heap) : AddSuggestion(o, "s1")
    \/ \E o \in Instances(heap) : GetDetails(o)
    \/ \E o \in Instances(heap) : GetAllContext(o)
    \/ \E o \in Instances(heap) : GetSuggestions(o)
    \/ \E d \in 1..Len(dicts), key \in Keys : DictSetItem(d, key, Scalar("y"))
    \/ \E d \in 1..Len(dicts), key \in Keys : DictDelItem(d, key)
    \/ \E l \in 1..Len(caller.lists) : ListAppend(l, "s2")
    \/ \E l \in 1..Len(caller.lists) : ListSetItem(l, "s2")
    \/ \E l \in 1..Len(caller.lists) : ListPop(l)

SpecAcc == Init /\ [][NextAcc]_vars

\* The suggestions tried: a text and the empty string, each possibly twice.
SuggestionTexts == {"s1", ""}

\* The mutators: instances come from the constructor or from
\* wrap_exception, and then have attach_context, clear_context,
\* add_suggestion, has_suggestions and get_suggestions called on them.
NextMut ==
    \/ \E content \in {EmptyMap, "k" :> Scalar("y")} : NewDict(content)
    \/ /\ Cardinality(Instances(heap)) < MaxObjs
       /\ \E details \in 0..Len(dicts) :
             \/ Construct("SplurgeValueError", Some(<<"c", "1">>), NoneStr, details,
                          "error", FALSE)
             \/ Construct("SplurgeSqlQueryError", Some(<<"c", "2">>),
                          Some("custom"), details, "warning", TRUE)
    \/ /\ Cardinality(Instances(heap)) < MaxObjs
       /\ Wrap("ValueError", "boom", "SplurgeValueError", Some(<<"c", "1">>),
               NoneStr, 0, Some(<<"", "s1", "">>), 0)
    \/ \E o \in Instances(heap), key \in {NoKey, Some("k")}, d \in 0..Len(dicts) :
          AttachContext(o, key, Scalar("x"), d)
    \/ \E o \in Instances(heap) : ClearContext(o)
    \/ \E o \in Instances(heap), suggestion \in SuggestionTexts :
          AddSuggestion(o, suggestion)
    \/ \E o \in Instances(heap) : HasSuggestions(o)
    \/ \E o \in Instances(heap) : GetSuggestions(o)

SpecMut == Init /\ [][NextMut]_vars

\* The payloads given to __setstate__: None, {}, a list (empty or not),
\* {"details": "not a dict"}, {"severity": "warning"}, a dict with a
\* context and suggestions that are a dict and a list, and one where they
\* are not.
StatePayloads ==
    {NoneState, EmptyState, OtherState(FALSE), OtherState(TRUE),
     [EmptyState EXCEPT !.truthy = TRUE, !.details = Malformed(EmptyMap)],
     [EmptyState EXCEPT !.truthy = TRUE, !.severity = Field("warning")],
     [EmptyState EXCEPT !.truthy = TRUE, !.message = Field(Some("restored")),
                        !.details = Field("j" :> Scalar("y")),
                        !._context = Field("j" :> Scalar("y")),
                        !._suggestions = Field(<<"s2">>)],
     [EmptyState EXCEPT !.truthy = TRUE, !.message = Field(Some("restored")),
                        !._context = Malformed(EmptyMap),
                        !._suggestions = Malformed(<<>>)]}

\* Pickling: instances are constructed, given context and suggestions,
\* pickled and unpickled, or have __setstate__ called on them directly.
NextPickle ==
    \/ \E content \in {"k" :> Scalar("x")} : NewDict(content)
    \/ /\ Cardinality(Instances(heap)) < MaxObjs
       /\ \E details \in 0..Len(dicts) :
             \/ Construct("SplurgeValueError", Some(<<"c", "1">>), NoneStr, details,
                          "error", FALSE)
             \/ Construct("SplurgeSqlQueryError", Some(<<"c", "2">>),
                          Some("custom"), details, "warning", TRUE)
    \/ \E o \in Instances(heap), value \in {Scalar("x"), Mapping({<<"n", "x">>})} :
          AttachContext(o, Some("k"), value, 0)
    \/ \E o \in Instances(heap) : ClearContext(o)
    \/ \E o \in Instances(heap), suggestion \in SuggestionTexts :
          AddSuggestion(o, suggestion)
    \/ /\ Cardinality(Instances(heap)) < MaxObjs
       /\ \E o \in Instances(heap) : RoundTrip(o)
    \/ \E o \in Instances(heap), state \in StatePayloads : SetState(o, state)

SpecPickle == Init /\ [][NextPickle]_vars

\* The context values given to the formatter: a text, a value whose
\* __str__ raises, and a value whose __str__ and __repr__ both raise.
FormatterValues == {Scalar("x"), BrokenStr("<BrokenStr>"), BrokenRepr}

\* Formatting: instances are constructed, given context and suggestions,
\* and formatted with and without their context and suggestions.
NextFmt ==
    \/ /\ Cardinality(Instances(heap)) < MaxObjs
       /\ \/ Construct("SplurgeValueError", Some(<<"c", "1">>), NoneStr, 0,
                        "error", FALSE)
          \/ Construct("SplurgeSqlQueryError", Some(<<"c", "2">>),
                        Some("custom"), 0, "warning", TRUE)
    \/ \E o \in Instances(heap), key \in Keys, value \in FormatterValues :
          AttachContext(o, Some(key), value, 0)
    \/ \E o \in Instances(heap), suggestion \in SuggestionTexts :
          AddSuggestion(o, suggestion)
    \/ \E o \in Instances(heap), include_context \in BOOLEAN,
          include_suggestions \in BOOLEAN :
          \E order \in KeyOrders(heap[o].context) :
              FormatError(o, order, include_context, include_suggestions)

SpecFmt == Init /\ [][NextFmt]_vars

-----------------------------------------------------------------------------
(* Properties of error_context.                                            *)

Invocations == 1..Len(invs)

Done(i) == invs[i].pc = "done"

\* The handler of invocation i caught an Exception whose exact type is a key
\* of its `exceptions` argument.
MappedCase(i) ==
    /\ invs[i].err /= 0
    /\ IsInstanceException(heap, invs[i].err)
    /\ IsMapped(invs[i].exceptions, heap[invs[i].err].cls)

\* ... and one whose exact type is not a key.
UnmappedCase(i) ==
    /\ invs[i].err /= 0
    /\ IsInstanceException(heap, invs[i].err)
    /\ ~IsMapped(invs[i].exceptions, heap[invs[i].err].cls)

\* The (target, error_code) entry that the caught exception selects.
Entry(i) == invs[i].exceptions.v[heap[invs[i].err].cls]

\* The entry's target type accepts the entry's error code.
Constructible(i) == InitFailure(Entry(i).target, Entry(i).error_code, "error") = "none"

\* The calls of callback cb made by invocation i.
CallsOf(i, cb) == {n \in 1..Len(calls) : calls[n].inv = i /\ calls[n].cb = cb}

Carries(ctx, param) ==
    TruthyMap(param) =>
        \A k \in DOMAIN param.v : k \in DOMAIN ctx /\ ctx[k] = param.v[k]

\* C3: a mapped Exception, on_error absent or returning normally,
\* suppress=False: what leaves the handler is a new instance of the mapped
\* target type with the mapped error_code, its cause is the original object
\* and its context carries the handler's `context`; on_error, when given, was
\* called exactly once, with that instance, after the context was attached and
\* while nothing had left the handler yet.  (An entry whose target cannot be
\* constructed is the subject of C12.)
C3_MappedErrorIsWrappedAndReported ==
    \A i \in Invocations :
        (MappedCase(i) /\ Constructible(i))
            => LET w == invs[i].wrapped
                   n == CallsOf(i, "on_error")
               IN  /\ w /= 0 /\ w /= invs[i].err
                   /\ heap[w].cls = Entry(i).target
                   /\ heap[w].error_code = Entry(i).error_code.v
                   /\ heap[w].cause = invs[i].err
                   /\ Carries(heap[w].context, invs[i].context)
                   /\ IF invs[i].on_error
                      THEN /\ Cardinality(n) = 1
                           /\ \A c \in n :
                                  /\ calls[c].arg = w
                                  /\ Carries(calls[c].context, invs[i].context)
                      ELSE n = {}
                   /\ invs[i].pc = "on_error"
                          => invs[i].exit = Running /\ result = Running
                   /\ (Done(i) /\ invs[i].cberr = 0 /\ ~invs[i].suppress)
                          => invs[i].exit = Raised(w)

\* A mapped exception with a non-empty `context` was reported to an on_error
\* that returned, and the wrapped error has left the handler.
C3_Witness ==
    \E i \in Invocations :
        /\ Done(i) /\ MappedCase(i) /\ Constructible(i)
        /\ invs[i].block = "raised"
        /\ invs[i].on_error /\ invs[i].cberr = 0 /\ ~invs[i].suppress
        /\ TruthyMap(invs[i].context)
        /\ invs[i].exit = Raised(invs[i].wrapped)

\* C4 as stated: with suppress=True, for every Exception raised in the block,
\* mapped or unmapped, on_error absent, returning or raising, the handler
\* exits normally and on_error, when given, was called exactly once.  (Stated
\* here for entries whose target error can be constructed; C12 is about the
\* others.)
C4_SuppressSwallowsEverything ==
    \A i \in Invocations :
        (/\ Done(i) /\ invs[i].suppress
         /\ invs[i].block = "raised"
         /\ IsInstanceException(heap, invs[i].err)
         /\ MappedCase(i) => Constructible(i))
            => /\ invs[i].exit = Normal
               /\ invs[i].on_error => Cardinality(CallsOf(i, "on_error")) = 1

\* C4 amended: the same, for a mapping entry whose target error can be
\* constructed and an on_error that, if it raises, raises an Exception.
C4_SuppressSwallowsExceptions ==
    \A i \in Invocations :
        (/\ Done(i) /\ invs[i].suppress
         /\ invs[i].block = "raised"
         /\ IsInstanceException(heap, invs[i].err)
         /\ MappedCase(i) => Constructible(i)
         /\ invs[i].cberr /= 0 => IsInstanceException(heap, invs[i].cberr))
            => /\ invs[i].exit = Normal
               /\ invs[i].on_error => Cardinality(CallsOf(i, "on_error")) = 1

\* A mapped exception was suppressed although its on_error callback raised.
C4_Witness ==
    \E i \in Invocations :
        /\ Done(i) /\ invs[i].suppress
        /\ invs[i].block = "raised"
        /\ MappedCase(i) /\ Constructible(i)
        /\ invs[i].cberr /= 0
        /\ IsInstanceException(heap, invs[i].cberr)
        /\ invs[i].exit = Normal

\* C5: a non-local-control exception raised in the block leaves the handler
\* as the same, unchanged object whatever the arguments are; nothing wraps it
\* and on_error is not called.
C5_NonLocalControlPassesThrough ==
    \A i \in Invocations :
        (invs[i].err /= 0 /\ ~IsSubclass(heap[invs[i].err].cls, "Exception"))
            => /\ Done(i)
               /\ invs[i].exit = Raised(invs[i].err)
               /\ invs[i].wrapped = 0
               /\ heap[invs[i].err].context = EmptyMap
               /\ \A o \in 1..Len(heap) : heap[o].cause /= invs[i].err
               /\ CallsOf(i, "on_error") = {}

\* A KeyboardInterrupt raised in the block of a handler that maps its type,
\* has a context and an on_error and suppresses, has left that handler.
C5_Witness ==
    \E i \in Invocations :
        /\ Done(i)
        /\ invs[i].block = "raised"
        /\ heap[invs[i].err].cls = "KeyboardInterrupt"
        /\ IsMapped(invs[i].exceptions, "KeyboardInterrupt")
        /\ TruthyMap(invs[i].context)
        /\ invs[i].on_error /\ invs[i].suppress
        /\ invs[i].exit = Raised(invs[i].err)

\* C6: per invocation, on_success is called exactly once if the block
\* completes without raising and never if the block raises; on_error is never
\* called when the block completed without raising, so the two callbacks are
\* never both called.
C6_CallbackExclusivity ==
    \A i \in Invocations :
        /\ invs[i].block = "raised" => CallsOf(i, "on_success") = {}
        /\ (Done(i) /\ invs[i].block = "returned" /\ invs[i].on_success)
               => Cardinality(CallsOf(i, "on_success")) = 1
        /\ invs[i].block = "returned" => CallsOf(i, "on_error") = {}
        /\ CallsOf(i, "on_success") = {} \/ CallsOf(i, "on_error") = {}

\* C7: an unmapped Exception, suppress=False, on_error absent or returning
\* normally: the identical original object leaves the handler, nothing is
\* wrapped, the handler's `context` is applied to no object, and on_error,
\* when given, was called exactly once with the original.
C7_UnmappedPassesThrough ==
    \A i \in Invocations :
        (Done(i) /\ UnmappedCase(i) /\ ~invs[i].suppress /\ invs[i].cberr = 0)
            => /\ invs[i].exit = Raised(invs[i].err)
               /\ invs[i].wrapped = 0
               /\ \A o \in 1..Len(heap) :
                      heap[o].context = EmptyMap /\ heap[o].cause = 0
               /\ IF invs[i].on_error
                  THEN /\ Cardinality(CallsOf(i, "on_error")) = 1
                       /\ \A c \in CallsOf(i, "on_error") :
                              calls[c].arg = invs[i].err
                  ELSE CallsOf(i, "on_error") = {}

\* A subclass of a mapped type, raised under a non-empty mapping and a
\* non-empty context, was reported to on_error and left the handler.
C7_Witness ==
    \E i \in Invocations :
        /\ Done(i) /\ UnmappedCase(i) /\ ~invs[i].suppress
        /\ invs[i].block = "raised"
        /\ heap[invs[i].err].cls = "UnicodeError"
        /\ TruthyMap(invs[i].exceptions)
        /\ TruthyMap(invs[i].context)
        /\ invs[i].on_error /\ invs[i].cberr = 0
        /\ invs[i].exit = Raised(invs[i].err)

-----------------------------------------------------------------------------
(* Properties of nested error_context handlers (SpecNested): invocation 1  *)
(* is the outer handler, invocation 2 the inner one.                       *)

\* The inner handler converted the exception of its block and let the
\* wrapped error out, the outer handler maps the same foreign type, and an
\* error has left the outer handler without the outer on_error failing.
NestedConversion ==
    /\ Len(invs) = 2
    /\ Done(1) /\ Done(2)
    /\ invs[2].block = "raised"
    /\ invs[2].wrapped /= 0
    /\ invs[2].exit = Raised(invs[2].wrapped)
    /\ IsMapped(invs[1].exceptions, heap[invs[2].err].cls)
    /\ invs[1].cberr = 0
    /\ result.kind = "raised"

\* The keys for which both handlers supply a context value.
SharedKeys ==
    IF TruthyMap(invs[1].context) /\ TruthyMap(invs[2].context)
    THEN (DOMAIN invs[1].context.v) \cap (DOMAIN invs[2].context.v)
    ELSE {}

\* C8: when both nested handlers map the same foreign type and both supply a
\* value for a context key, the error that leaves the outer handler has the
\* inner handler's value for that key; a mapping value of the inner handler
\* replaces a mapping value of the outer one, none of whose entries remains.
C8_InnerContextWins ==
    NestedConversion =>
        \A k \in SharedKeys :
            LET final == heap[result.exc].context
                inner == invs[2].context.v[k]
                outer == invs[1].context.v[k]
            IN  /\ k \in DOMAIN final
                /\ final[k] = inner
                /\ (inner.tag = "mapping" /\ outer.tag = "mapping")
                       => \A pair \in outer.m \ inner.m : pair \notin final[k].m

\* Both handlers gave different mappings for "k" and the error has left the
\* outer handler.
C8_Witness ==
    /\ NestedConversion
    /\ "k" \in SharedKeys
    /\ invs[1].context.v["k"].tag = "mapping"
    /\ invs[2].context.v["k"].tag = "mapping"
    /\ invs[1].context.v["k"] /= invs[2].context.v["k"]
    /\ heap[result.exc].context["k"] = invs[2].context.v["k"]

-----------------------------------------------------------------------------
(* Properties of handle_exceptions (SpecDec).                              *)

\* The function raised, in the last call, an exception whose exact type is
\* a key of `exceptions`.
DecMapped == dres.err /= 0 /\ InExceptions(dec.exceptions, heap[dres.err].cls)

DecUnmapped == dres.err /= 0 /\ ~InExceptions(dec.exceptions, heap[dres.err].cls)

DecEntry == dec.exceptions.v[heap[dres.err].cls]

DecConstructible == InitFailure(DecEntry.target, DecEntry.error_code, "error") = "none"

\* C9: a mapped exception: a wrapped error of the target type with the mapped
\* error_code and message str(original) is built, exactly one log record is
\* emitted, at log_level, and then the wrapped error is raised with the
\* original as its cause if reraise, else None is returned and nothing is
\* raised.  (log_level is one of the documented levels; an entry whose target
\* cannot be constructed is the subject of C12.)
C9_MappedCallIsWrappedLoggedResolved ==
    (DecMapped /\ DecConstructible)
        => LET w == dres.wrapped
               e == dres.err
           IN  /\ w /= 0 /\ w /= e
               /\ heap[w].cls = DecEntry.target
               /\ heap[w].error_code = DecEntry.error_code.v
               /\ heap[w].message.given
               /\ heap[w].message.v =
                      (IF heap[e].cls = "KeyError" THEN "'boom'" ELSE "boom")
               /\ Len(logs) = dres.logged + 1
               /\ dec.log_level \in LoggerLevels
                      => logs[Len(logs)].level = dec.log_level
               /\ logs[Len(logs)].error_code = DecEntry.error_code.v
               /\ logs[Len(logs)].message = heap[w].message
               /\ logs[Len(logs)].exc_info = dec.include_traceback
               /\ IF dec.reraise
                  THEN /\ dres.kind = "raised"
                       /\ dres.exc = w
                       /\ heap[w].cause = e
                  ELSE /\ dres.kind = "returned"
                       /\ dres.value = "None"
                       /\ dres.exc = 0

\* A mapped exception was logged at "debug" and swallowed (reraise=False).
C9_Witness ==
    /\ DecMapped /\ DecConstructible
    /\ ~dec.reraise
    /\ dec.log_level = "debug"
    /\ dres.kind = "returned"
    /\ Len(logs) = dres.logged + 1
    /\ logs[Len(logs)].level = "debug"

\* C10: an exception whose type is not a key of `exceptions` reaches the
\* caller as the identical, unchanged object; no wrapped error is built and no
\* log record is emitted, whatever reraise, log_level and include_traceback.
C10_UnmappedCallPropagates ==
    DecUnmapped
        => /\ dres.kind = "raised"
           /\ dres.exc = dres.err
           /\ dres.wrapped = 0
           /\ Len(heap) = dres.err
           /\ heap[dres.err].message = Some("boom")
           /\ heap[dres.err].cause = 0
           /\ \A o \in 1..Len(heap) : heap[o].cause /= dres.err
           /\ Len(logs) = dres.logged

\* A subclass of a mapped type was raised under reraise=False and reached
\* the caller.
C10_Witness ==
    /\ DecUnmapped
    /\ heap[dres.err].cls = "UnicodeError"
    /\ InExceptions(dec.exceptions, "ValueError")
    /\ ~dec.reraise
    /\ dres.kind = "raised"
    /\ dres.exc = dres.err

-----------------------------------------------------------------------------
(* Properties of the three conversion paths (SpecConv).                    *)

\* Type cls is not a key of mapping m but a proper subclass of one.
SubclassOfKeyOnly(m, cls) ==
    /\ cls \notin DOMAIN m
    /\ \E k \in DOMAIN m : IsSubclass(cls, k)

\* No object of the heap is a conversion of object e.
NeverConverted(e) == \A x \in 1..Len(heap) : heap[x].cause /= e

\* C11: in error_context and in handle_exceptions alike, an exception whose
\* type is not a key of the mapping but a proper subclass of a key is treated
\* as unmapped: no wrapped error is built from it, on_error (if any) receives
\* the exception itself, nothing is logged, and what leaves is never a
\* conversion of it (the decorator re-raises the very object).
C11_ExactTypeMatching ==
    /\ \A i \in Invocations :
           (/\ invs[i].err /= 0
            /\ IsInstanceException(heap, invs[i].err)
            /\ TruthyMap(invs[i].exceptions)
            /\ SubclassOfKeyOnly(invs[i].exceptions.v, heap[invs[i].err].cls))
           => /\ ~invs[i].mapped
              /\ invs[i].wrapped = 0
              /\ NeverConverted(invs[i].err)
              /\ \A n \in CallsOf(i, "on_error") : calls[n].arg = invs[i].err
              /\ invs[i].on_error => CallsOf(i, "on_error") /= {}
              /\ (Done(i) /\ invs[i].exit.kind = "raised")
                     => invs[i].exit.exc \in {invs[i].err, invs[i].cberr}
    /\ (/\ dres.err /= 0
        /\ SubclassOfKeyOnly(dec.exceptions.v, heap[dres.err].cls))
       => /\ dres.kind = "raised"
          /\ dres.exc = dres.err
          /\ dres.wrapped = 0
          /\ Len(logs) = dres.logged
          /\ NeverConverted(dres.err)

C11_Witness ==
    \E i \in Invocations :
        /\ Done(i) /\ invs[i].err /= 0
        /\ heap[invs[i].err].cls = "UnicodeError"
        /\ invs[i].exceptions = Some(MapMixed)
        /\ invs[i].on_error /\ invs[i].suppress
        /\ invs[i].cberr = 0
        /\ invs[i].exit = Normal
        /\ \E n \in CallsOf(i, "on_error") : calls[n].arg = invs[i].err

\* Object x is the error that the constructor of `target` raised for
\* error_code: a new TypeError or ValueError, not chained to anything.
IsConstructionError(x, target, error_code) ==
    /\ heap[x].cls = InitFailure(target, error_code, "error")
    /\ heap[x].cls \in {"TypeError", "ValueError"}
    /\ heap[x].message = Some(InitFailureMessage(target, error_code, "error"))
    /\ heap[x].cause = 0

\* C12: when the target type refuses the entry (or the arguments of a direct
\* wrap_exception call), the constructor's own error is what leaves
\* error_context, the decorated call and wrap_exception, also with
\* suppress=True or reraise=False; no wrapped error exists, on_error is not
\* called and nothing is logged.
C12_ConstructionErrorPropagates ==
    /\ \A i \in Invocations :
           (MappedCase(i) /\ ~Constructible(i))
           => /\ Done(i)
              /\ invs[i].exit.kind = "raised"
              /\ invs[i].exit.exc /= invs[i].err
              /\ IsConstructionError(invs[i].exit.exc, Entry(i).target,
                                     Entry(i).error_code)
              /\ invs[i].wrapped = 0
              /\ NeverConverted(invs[i].err)
              /\ CallsOf(i, "on_error") = {}
    /\ (DecMapped /\ ~DecConstructible)
       => /\ dres.kind = "raised"
          /\ dres.exc /= dres.err
          /\ IsConstructionError(dres.exc, DecEntry.target, DecEntry.error_code)
          /\ dres.wrapped = 0
          /\ NeverConverted(dres.err)
          /\ Len(logs) = dres.logged
    /\ (/\ api.op = "wrap_exception"
        /\ InitFailure(api.args.target, api.args.error_code, "error") /= "none")
       => /\ ~api.ok
          /\ IsConstructionError(api.ret, api.args.target, api.args.error_code)
          /\ Len(heap) = Len(prev.heap) + 1
          /\ NeverConverted(api.args.exc)

C12_Witness ==
    \E i \in Invocations :
        /\ MappedCase(i) /\ ~Constructible(i)
        /\ invs[i].exceptions = Some(MapInvalid)
        /\ heap[invs[i].err].cls = "KeyError"
        /\ invs[i].on_error /\ invs[i].suppress
        /\ invs[i].exit.kind = "raised"
        /\ heap[invs[i].exit.exc].cls = "ValueError"

-----------------------------------------------------------------------------
(* Properties of a direct wrap_exception call (SpecWrap).                  *)

\* C13: a wrap_exception call whose error_code the target accepts returns a
\* new object of exactly the target type, with the given code, the given
\* message or else str(exc), exc itself as its cause, details and context
\* equal to the given dicts (empty when absent) and the given suggestions in
\* the given order (none when absent); exc is left as it was.
C13_WrapKeepsEveryArgument ==
    (/\ api.op = "wrap_exception"
     /\ InitFailure(api.args.target, api.args.error_code, "error") = "none")
    => LET a == api.args
           r == heap[api.ret]
           exc == prev.heap[a.exc]
       IN  /\ api.ok
           /\ api.ret = Len(prev.heap) + 1
           /\ Len(heap) = Len(prev.heap) + 1
           /\ r.cls = a.target
           /\ r.error_code = a.error_code.v
           /\ r.message = IF a.message.given THEN a.message
                          ELSE IF exc.cls = "KeyError"
                          THEN Some("'" \o exc.message.v \o "'")
                          ELSE exc.message
           /\ r.cause = a.exc
           /\ DetailsOf(r, dicts) = IF a.details = 0 THEN EmptyMap
                                    ELSE dicts[a.details]
           /\ r.context = IF a.context = 0 THEN EmptyMap ELSE dicts[a.context]
           /\ r.suggestions = IF a.suggestions.given THEN a.suggestions.v ELSE <<>>
           /\ heap[a.exc] = exc
           /\ dicts = prev.dicts

C13_Witness ==
    /\ api.op = "wrap_exception"
    /\ api.ok
    /\ api.args.message = Some("custom")
    /\ api.args.context /= 0
    /\ api.args.details /= 0
    /\ api.args.context /= api.args.details
    /\ api.args.suggestions = Some(<<"s2", "s1">>)
    /\ heap[api.ret].message = Some("custom")
    /\ heap[api.ret].suggestions = <<"s2", "s1">>
    /\ DOMAIN heap[api.ret].context = {"k", "j"}
    /\ DOMAIN DetailsOf(heap[api.ret], dicts) = {"k"}
    /\ heap[api.ret].cause = api.args.exc

-----------------------------------------------------------------------------
(* Properties of construction and of full_code (SpecInit).                 *)

\* The last dot-bounded component of a domain.
LastComponent(domain) == Split(domain)[Len(Split(domain))]

\* C14: when the last component of the domain equals the error_code,
\* full_code is the domain alone.
C14_FullCodeNotDuplicated ==
    (/\ api.op = "full_code"
     /\ LastComponent(DomainOf(heap[api.args.obj].cls)) = heap[api.args.obj].error_code)
    => api.out = DomainOf(heap[api.args.obj].cls)

\* C15: when the last component of the domain differs from the error_code,
\* full_code is the domain, a dot and the error_code: it is not empty, it
\* starts with the domain and ends with the error_code; reading it changes
\* neither the instance nor anything else.
C15_FullCodeIsDomainDotCode ==
    (/\ api.op = "full_code"
     /\ LastComponent(DomainOf(heap[api.args.obj].cls)) /= heap[api.args.obj].error_code)
    => LET d == DomainOf(heap[api.args.obj].cls)
           c == heap[api.args.obj].error_code
           f == api.out
       IN  /\ f /= <<>>
           /\ Len(f) = Len(d) + 1 + Len(c)
           /\ SubSeq(f, 1, Len(d)) = d
           /\ f[Len(d) + 1] = "."
           /\ SubSeq(f, Len(d) + 2, Len(f)) = c
           /\ heap = prev.heap
           /\ dicts = prev.dicts

C15_Witness ==
    /\ api.op = "full_code"
    /\ heap[api.args.obj].cls = "SplurgeSqlQueryError"
    /\ heap[api.args.obj].error_code = <<"e", "r", "y">>
    /\ Len(api.out) = 22

\* The rule as the pattern is documented: at least two characters, the first
\* a lowercase letter, the last a lowercase letter or digit, all of them
\* lowercase letters, digits or dashes.
WellFormedComponent(c) ==
    /\ Len(c) >= 2
    /\ c[1] \in Lower
    /\ c[Len(c)] \in Lower \cup Digit
    /\ \A i \in 1..Len(c) : c[i] \in Lower \cup Digit \cup {"-"}

WellFormedDomain(d) ==
    \A i \in 1..Len(Split(d)) :
        Split(d)[i] /= <<>> /\ WellFormedComponent(Split(d)[i])

\* C16: for a class that declares a domain, and a valid severity,
\* construction succeeds exactly when the error_code is a well-formed
\* component and the domain is made of well-formed components; when it fails
\* no instance exists.
C16_StrictValidation ==
    (/\ api.op = "construct"
     /\ HasDomain(api.args.cls)
     /\ api.args.severity \in VALID_SEVERITIES)
    => /\ api.ok <=> /\ api.args.error_code.given
                     /\ WellFormedComponent(api.args.error_code.v)
                     /\ WellFormedDomain(DomainOf(api.args.cls))
       /\ ~api.ok => heap = prev.heap

\* What construction raises for a malformed error_code on a sound class, and
\* what it raises for a class without a domain.
BadCodeKind == InitFailure("SplurgeValueError", Some(<<"B", "a", "d">>), "error")

MissingDomainKind == InitFailure("SplurgeError", Some(<<"c", "1">>), "error")

\* C17: constructing a class whose domain is missing or malformed fails
\* with one kind of error, whatever the error_code, and that kind is not the
\* kind a malformed error_code raises.
C17_MisconfiguredTypeHasOwnKind ==
    (/\ api.op = "construct"
     /\ (~HasDomain(api.args.cls) \/ ~WellFormedDomain(DomainOf(api.args.cls))))
    => /\ ~api.ok
       /\ api.raised = MissingDomainKind
       /\ api.raised /= BadCodeKind

-----------------------------------------------------------------------------
(* Properties of instances and the caller's dicts (SpecErr).               *)

\* The last step was the caller changing one of its dicts at the top level.
CallerChangedDict == api.op \in {"dict_setitem", "dict_delitem"}

\* C18: a new instance has an empty context, no suggestions and the given
\* details; what its details read as does not change when the caller adds,
\* replaces or removes a top-level key of the dict it passed; and a call that
\* changes the context or the suggestions of one instance leaves those of
\* every other instance as they were.
C18_ConstructionCopiesDetails ==
    /\ (api.op = "construct" /\ api.ok)
       => /\ heap[api.ret].context = EmptyMap
          /\ heap[api.ret].suggestions = <<>>
          /\ DetailsOf(heap[api.ret], dicts) =
                 IF api.args.details = 0 THEN EmptyMap ELSE dicts[api.args.details]
    /\ CallerChangedDict
       => \A o \in Instances(heap) :
              DetailsOf(heap[o], dicts) = DetailsOf(prev.heap[o], prev.dicts)
    /\ api.op \in {"attach_context", "add_suggestion"}
       => \A o \in Instances(heap) \ {api.args.obj} :
              /\ heap[o].context = prev.heap[o].context
              /\ heap[o].suggestions = prev.heap[o].suggestions

\* C19: attach_context() with neither key nor context_dict raises ValueError
\* and leaves the instance, like everything else, exactly as it was.
C19_MissingArgumentChangesNothing ==
    (/\ api.op = "attach_context"
     /\ ~api.args.key.given
     /\ api.args.context_dict = 0)
    => /\ ~api.ok
       /\ api.raised = "ValueError"
       /\ heap = prev.heap
       /\ dicts = prev.dicts

C19_Witness ==
    /\ api.op = "attach_context"
    /\ ~api.args.key.given
    /\ api.args.context_dict = 0
    /\ api.raised = "ValueError"
    /\ DOMAIN heap[api.args.obj].context /= {}
    /\ heap[api.args.obj].suggestions /= <<>>

\* What a successful attach_context call writes: the items of a non-empty
\* context_dict as they are at the call, else the one (key, value) pair.
Written(a, ds) ==
    IF a.context_dict /= 0 /\ DOMAIN ds[a.context_dict] /= {}
    THEN ds[a.context_dict]
    ELSE a.key.v :> a.value

\* C20: a successful attach_context call returns the instance it was called
\* on; afterwards every key it wrote maps to the value it wrote and every
\* other key maps to what it mapped to before, no key being lost; and when
\* the caller later adds, replaces or removes a top-level key of a dict it
\* passed, or creates a dict, no instance's context changes.
C20_AttachContextMerges ==
    /\ (api.op = "attach_context" /\ api.ok)
       => LET a == api.args
              before == prev.heap[a.obj].context
              after == heap[a.obj].context
              written == Written(a, prev.dicts)
          IN  /\ api.ret = a.obj
              /\ DOMAIN after = (DOMAIN before) \cup (DOMAIN written)
              /\ \A k \in DOMAIN after :
                     after[k] = IF k \in DOMAIN written THEN written[k]
                                ELSE before[k]
    /\ (CallerChangedDict \/ api.op = "new_dict")
       => \A o \in Instances(heap) : heap[o].context = prev.heap[o].context

C20_Witness ==
    /\ api.op = "dict_setitem"
    /\ \E o \in Instances(heap) :
           /\ heap[o].context = prev.dicts[api.args.dict]
           /\ heap[o].context /= dicts[api.args.dict]
           /\ DOMAIN heap[o].context = {"k", "j"}
           /\ api.args.key = "k"
           /\ heap[o].context["k"] /= api.args.value

-----------------------------------------------------------------------------
(* Properties of the read accessors (SpecAcc).                             *)

\* The instances from whose accessors the caller got the dict or list that
\* it changed, at the top level, in the last step.
SourcesOfChangedCopy ==
    IF CallerChangedDict
    THEN {c.obj : c \in {x \in caller.returned :
                            x.kind = "dict" /\ x.id = api.args.dict}}
    ELSE IF api.op \in {"list_append", "list_setitem", "list_pop"}
    THEN {c.obj : c \in {x \in caller.returned :
                            x.kind = "list" /\ x.id = api.args.list}}
    ELSE {}

\* C21: details, get_all_context() and get_suggestions() return a new
\* object equal to what the instance holds and change no instance; and when
\* the caller adds, replaces or removes a top-level entry of an object it got
\* from an accessor of an instance, that instance's details, context and
\* suggestions read as before.
C21_AccessorsReturnCopies ==
    /\ api.op = "details"
       => /\ api.ret = Len(prev.dicts) + 1
          /\ dicts[api.ret] = DetailsOf(prev.heap[api.args.obj], prev.dicts)
          /\ heap = prev.heap
    /\ api.op = "get_all_context"
       => /\ api.ret = Len(prev.dicts) + 1
          /\ dicts[api.ret] = prev.heap[api.args.obj].context
          /\ heap = prev.heap
    /\ api.op = "get_suggestions"
       => /\ api.ret = Len(caller.lists)
          /\ caller.lists[api.ret] = prev.heap[api.args.obj].suggestions
          /\ heap = prev.heap
    /\ \A o \in SourcesOfChangedCopy :
           /\ DetailsOf(heap[o], dicts) = DetailsOf(prev.heap[o], prev.dicts)
           /\ heap[o].context = prev.heap[o].context
           /\ heap[o].suggestions = prev.heap[o].suggestions

C21_Witness ==
    /\ api.op = "dict_setitem"
    /\ \E o \in SourcesOfChangedCopy :
           /\ heap[o].details_id \notin {0, api.args.dict}
           /\ prev.dicts[api.args.dict] = DetailsOf(heap[o], dicts)
           /\ dicts[api.args.dict] /= DetailsOf(heap[o], dicts)

-----------------------------------------------------------------------------
(* Properties of the mutators (SpecMut).                                   *)

\* C22: a new instance has the suggestions given to wrap_exception, or
\* none; add_suggestion appends its argument, whatever it is, behind the
\* suggestions already there; no other call changes the suggestions of any
\* instance; get_suggestions() returns them as they are and
\* has_suggestions() tells whether there is one.
C22_SuggestionsAppendOnly ==
    /\ (api.op = "construct" /\ api.ok) => heap[api.ret].suggestions = <<>>
    /\ (api.op = "wrap_exception" /\ api.ok)
       => heap[api.ret].suggestions =
              IF api.args.suggestions.given THEN api.args.suggestions.v ELSE <<>>
    /\ api.op = "add_suggestion"
       => /\ heap[api.args.obj].suggestions =
                 prev.heap[api.args.obj].suggestions \o <<api.args.suggestion>>
          /\ api.ret = api.args.obj
    /\ \A o \in Instances(prev.heap) :
           (api.op = "add_suggestion" /\ api.args.obj = o)
           \/ heap[o].suggestions = prev.heap[o].suggestions
    /\ api.op = "get_suggestions"
       => caller.lists[api.ret] = heap[api.args.obj].suggestions
    /\ api.op = "has_suggestions"
       => (api.out <=> heap[api.args.obj].suggestions /= <<>>)

C22_Witness ==
    /\ api.op = "clear_context"
    /\ heap[api.args.obj].suggestions = <<"", "s1", "", "">>
    /\ DOMAIN prev.heap[api.args.obj].context /= {}

\* The fields of an instance that only its constructor sets.
ConstructionFields(o, ds) ==
    [cls |-> o.cls, error_code |-> o.error_code, domain |-> DomainOf(o.cls),
     full_code |-> FullCode(o), message |-> o.message,
     details |-> DetailsOf(o, ds), severity |-> o.severity,
     recoverable |-> o.recoverable]

\* C30: attach_context, clear_context and add_suggestion, failing calls
\* included, leave class, error_code, domain, full_code, message, details,
\* severity and recoverable of every instance as they were; attach_context
\* and clear_context leave the suggestions, and add_suggestion leaves the
\* context, as they were; after clear_context the context is empty.
C30_MutatorsFrame ==
    api.op \in {"attach_context", "clear_context", "add_suggestion"}
    => /\ \A o \in Instances(heap) :
              ConstructionFields(heap[o], dicts) =
                  ConstructionFields(prev.heap[o], prev.dicts)
       /\ Instances(heap) = Instances(prev.heap)
       /\ api.op \in {"attach_context", "clear_context"}
          => heap[api.args.obj].suggestions = prev.heap[api.args.obj].suggestions
       /\ api.op = "add_suggestion"
          => heap[api.args.obj].context = prev.heap[api.args.obj].context
       /\ api.op = "clear_context"
          => heap[api.args.obj].context = EmptyMap /\ api.ret = api.args.obj

C30_Witness ==
    /\ api.op = "clear_context"
    /\ heap[api.args.obj].cls = "SplurgeSqlQueryError"
    /\ heap[api.args.obj].details_id /= 0
    /\ heap[api.args.obj].suggestions /= <<>>
    /\ DOMAIN prev.heap[api.args.obj].context /= {}
    /\ heap[api.args.obj].context = EmptyMap

-----------------------------------------------------------------------------
(* Argument selection of attach_context (SpecErr).                         *)

\* C26: when attach_context is given a context_dict, empty or not, the call
\* succeeds, returns self and merges exactly the entries of context_dict,
\* ignoring key and value; key and value are stored only when no
\* context_dict is given.
C26_ContextDictTakesPrecedence ==
    api.op = "attach_context"
    => LET o      == api.args.obj
           before == prev.heap[o].context
           given  == prev.dicts[api.args.context_dict]
       IN  /\ api.args.context_dict /= 0
              => /\ api.ok
                 /\ api.ret = o
                 /\ DOMAIN heap[o].context = DOMAIN before \cup DOMAIN given
                 /\ \A k \in DOMAIN heap[o].context :
                        heap[o].context[k] =
                            IF k \in DOMAIN given THEN given[k] ELSE before[k]
           /\ (api.args.context_dict = 0 /\ api.args.key.given)
              => /\ api.ok
                 /\ heap[o].context =
                        DictUpdate(before, api.args.key.v :> api.args.value)

-----------------------------------------------------------------------------
(* Properties of pickling (SpecPickle).                                    *)

\* C23: unpickling a pickled instance succeeds and gives a new object with
\* the class, error_code, message, details, context and suggestions of the
\* original, whatever attach_context, clear_context and add_suggestion calls
\* the original has seen; the error code of the restored object is the
\* original's code, not its display string.
C23_PickleRoundTrip ==
    api.op = "pickle_roundtrip"
    => /\ api.ok
       /\ api.ret \notin Instances(prev.heap)
       /\ LET original == prev.heap[api.args.obj]
              restored == heap[api.ret]
          IN  /\ restored.cls = original.cls
              /\ restored.error_code = original.error_code
              /\ restored.message = original.message
              /\ DetailsOf(restored, dicts) = DetailsOf(original, prev.dicts)
              /\ restored.context = original.context
              /\ restored.suggestions = original.suggestions
       /\ heap[api.args.obj] = prev.heap[api.args.obj]

C23_Witness ==
    /\ api.op = "pickle_roundtrip"
    /\ api.ok
    /\ heap[api.ret].cls = "SplurgeSqlQueryError"
    /\ heap[api.ret].message = Some("custom")
    /\ DOMAIN heap[api.ret].context /= {}
    /\ heap[api.ret].suggestions /= <<>>
    /\ heap[api.args.obj].details_id /= 0

\* C24: __setstate__ never raises; None and an empty payload leave the
\* instance as it was; after a non-empty payload the message, details,
\* context and suggestions are those of the payload, an absent one being
\* None or empty, and details that are not a dict being empty.
C24_SetStateIgnoresMalformed ==
    api.op = "setstate"
    => LET o     == api.args.obj
           state == api.args.state
       IN  /\ api.ok
           /\ ~state.truthy => heap[o] = prev.heap[o]
           /\ state.truthy
              => /\ heap[o].message = StateGet(state.message, NoneStr)
                 /\ DetailsOf(heap[o], dicts) =
                        IF state.details.typed THEN state.details.v ELSE EmptyMap
                 /\ state._context.typed => heap[o].context = state._context.v
                 /\ ~state._context.present => heap[o].context = EmptyMap
                 /\ state._suggestions.typed
                    => heap[o].suggestions = state._suggestions.v
                 /\ ~state._suggestions.present => heap[o].suggestions = <<>>

-----------------------------------------------------------------------------
(* Properties of the formatter (SpecFmt).                                  *)

-----------------------------------------------------------------------------
(* Nested handlers that map the same foreign type (SpecNested).            *)

\* The inner handler converted the exception of its block and raised the
\* wrapped error, and the outer handler, which has finished, maps the type
\* of that foreign exception too.
NestedSameType ==
    /\ Len(invs) = 2
    /\ Done(1) /\ Done(2)
    /\ invs[2].wrapped /= 0
    /\ invs[2].exit = Raised(invs[2].wrapped)
    /\ IsMapped(invs[1].exceptions, heap[invs[2].err].cls)

\* What the inner handler's `context` argument holds.
InnerContext == IF TruthyMap(invs[2].context) THEN invs[2].context.v ELSE EmptyMap

\* C27: when both nested handlers map the same foreign type, the outer
\* handler converts nothing: it catches the inner handler's wrapped error,
\* whose cause is still the original foreign exception and whose context is
\* exactly the inner handler's context map, without any key that only the
\* outer handler supplies; the outer on_error, when given, is called once,
\* with that instance; and unless that callback fails, what leaves the outer
\* handler is that very instance, and it does leave when suppress is False.
C27_OuterPassesInnerErrorThrough ==
    NestedSameType
    => LET w == invs[2].wrapped
           n == CallsOf(1, "on_error")
       IN  /\ invs[1].err = w
           /\ ~invs[1].mapped
           /\ invs[1].wrapped = 0
           /\ w /= invs[2].err
           /\ heap[w].cause = invs[2].err
           /\ heap[w].context = InnerContext
           /\ TruthyMap(invs[1].context)
              => \A k \in (DOMAIN invs[1].context.v) \ (DOMAIN InnerContext) :
                     k \notin DOMAIN heap[w].context
           /\ IF invs[1].on_error
              THEN /\ Cardinality(n) = 1
                   /\ \A c \in n : calls[c].arg = w /\ calls[c].context = InnerContext
              ELSE n = {}
           /\ (result.kind = "raised" /\ invs[1].cberr = 0) => result.exc = w
           /\ (~invs[1].suppress /\ invs[1].cberr = 0) => result = Raised(w)

\* The outer handler supplies a key the inner one does not, has an on_error
\* callback, and the inner handler's error has left it.
C27_Witness ==
    /\ NestedSameType
    /\ invs[1].on_error
    /\ invs[1].cberr = 0
    /\ TruthyMap(invs[1].context)
    /\ "j" \in DOMAIN invs[1].context.v
    /\ InnerContext = "k" :> Scalar("inner")
    /\ result = Raised(invs[2].wrapped)
    /\ heap[result.exc].context = "k" :> Scalar("inner")
    /\ heap[heap[result.exc].cause].cls = "ValueError"

-----------------------------------------------------------------------------
(* Callbacks that raise a non-local-control exception (Spec).              *)

\* C28: when on_error raises an exception that is not an Exception, that
\* exception object leaves the handler, in the mapped and in the unmapped
\* case and whatever suppress is; when on_error raises an Exception and
\* suppress is True, nothing leaves the handler.
C28_CallbackInterruptPropagates ==
    \A i \in Invocations :
        (Done(i) /\ invs[i].cberr /= 0)
            => /\ CallsOf(i, "on_error") /= {}
               /\ ~IsSubclass(heap[invs[i].cberr].cls, "Exception")
                  => /\ invs[i].exit = Raised(invs[i].cberr)
                     /\ heap[invs[i].cberr].cls \in NonLocalControlTypes
               /\ (IsSubclass(heap[invs[i].cberr].cls, "Exception") /\ invs[i].suppress)
                  => invs[i].exit = Normal

\* A KeyboardInterrupt raised by on_error has left a handler that had
\* converted a mapped exception and was asked to suppress.
C28_Witness ==
    \E i \in Invocations :
        /\ Done(i) /\ invs[i].suppress
        /\ invs[i].mapped /\ invs[i].wrapped /= 0
        /\ invs[i].cberr /= 0
        /\ heap[invs[i].cberr].cls = "KeyboardInterrupt"
        /\ result = Raised(invs[i].cberr)

-----------------------------------------------------------------------------
(* Non-local-control exceptions whose type is a key of `exceptions`        *)
(* (SpecConv).                                                             *)

\* The function raised, in the last call, an exception that is not an
\* Exception, its exact type is a key of `exceptions`, and the target error
\* of that entry can be constructed.
DecMappedInterrupt ==
    /\ dres.err /= 0
    /\ ~IsSubclass(heap[dres.err].cls, "Exception")
    /\ heap[dres.err].cls \in DOMAIN dec.exceptions.v
    /\ InitFailure(dec.exceptions.v[heap[dres.err].cls].target,
                   dec.exceptions.v[heap[dres.err].cls].error_code, "error") = "none"

\* C29: handle_exceptions converts an exception that is not an Exception
\* when its exact type is a key of `exceptions`: the wrapped target error is
\* built and logged once, and raised with the original as its cause, or None
\* is returned when reraise is False.  error_context, given a mapping with
\* the same key, lets the exception out as it is: nothing is wrapped and
\* on_error is not called.
C29_DecoratorConvertsInterrupt ==
    /\ DecMappedInterrupt
       => LET w == dres.wrapped
              e == dres.err
              m == dec.exceptions.v[heap[e].cls]
          IN  /\ w /= 0 /\ w /= e
              /\ heap[w].cls = m.target
              /\ heap[w].error_code = m.error_code.v
              /\ Len(logs) = dres.logged + 1
              /\ IF dec.reraise
                 THEN dres.kind = "raised" /\ dres.exc = w /\ heap[w].cause = e
                 ELSE dres.kind = "returned" /\ dres.value = "None" /\ dres.exc = 0
    /\ \A i \in Invocations :
           (/\ invs[i].err /= 0
            /\ ~IsSubclass(heap[invs[i].err].cls, "Exception")
            /\ TruthyMap(invs[i].exceptions)
            /\ heap[invs[i].err].cls \in DOMAIN invs[i].exceptions.v)
               => /\ Done(i)
                  /\ invs[i].exit = Raised(invs[i].err)
                  /\ invs[i].wrapped = 0
                  /\ CallsOf(i, "on_error") = {}
                  /\ \A o \in 1..Len(heap) : heap[o].cause /= invs[i].err

\* The decorated function raised KeyboardInterrupt, which the mapping names,
\* and the call returned None.
C29_Witness ==
    /\ DecMappedInterrupt
    /\ heap[dres.err].cls = "KeyboardInterrupt"
    /\ ~dec.reraise
    /\ dres.kind = "returned"
    /\ heap[dres.wrapped].cls = "SplurgeRuntimeError"
    /\ Len(logs) = dres.logged + 1

====
